---- MODULE Spec2Model ----
(***************************************************************************)
(* Model of the CV extraction core of AI-Talent-Matcher:                   *)
(*   - the skill/role reference store  (services/cv/ner_skill_matcher)     *)
(*   - the extraction orchestrator     (services/cv/extraction_service.py) *)
(*   - the partial update of a record  (services/cv/storage_service.py)    *)
(*   - the PDF text extractor          (utils/pdf_extractor.py)            *)
(*                                                                         *)
(* A Python str is a sequence of one-character strings, so that lower(),   *)
(* strip(), split(",") and the substring test are computed, not assumed.   *)
(* Python's None is the value NoneVal.                                     *)
(***************************************************************************)
EXTENDS Integers, Sequences, FiniteSets, TLC

VARIABLES
    csv_files,        \* the *_job_roles_skills.csv files on disk, sorted by name
    pc,               \* position of the running extract_cv_from_pdf call
    cv_text,          \* its local cv_text
    experiences,      \* its local experiences (the role field of each entry)
    matched_roles,    \* its local matched_roles
    job_skills,       \* its local job_skills
    explicit_skills,  \* its local explicit_skills
    output,           \* the returned record (skills_analysis part) or NoneVal
    hash_order,       \* iteration order of str sets under this process's hash seed
    ref_call,         \* last call made on the reference store: [fn, arg]
    ref_result,       \* and what it returned or raised
    parsed_files,     \* the objects under {user_id}/parsed, as list() gives them
    upd_call,         \* the update requested: PATCH /cv/update or a direct call
    upd_result,       \* and its outcome
    pdf,              \* the document given to extract_text_from_pdf
    PYMUPDF_AVAILABLE,\* whether fitz could be imported
    pdf_pc,           \* position of the running extract_text_from_pdf call
    use_strict_false, \* its locals
    texts,
    first_page_failed,
    pdf_error,        \* the exception in flight to the handlers of lines 141-186
    pdf_result,       \* what the call returned or raised
    agent_pc,         \* the agent extract_cv_from_pdf is about to invoke
    agent_in,         \* the completion of the agent being invoked, while the call lasts
    agent_out,        \* what the agents invoked so far returned
    cv_record,        \* the sections of the record built from it
    upload_file,      \* the file given to POST /cv/extract
    upload_pc,        \* position of the running extract_cv call
    upload_done,      \* what it has called so far
    upload_status,    \* status of its response, 0 while there is none
    db,               \* the job_position and applications tables
    job_call,         \* the last request to /jobs handled
    job_response,     \* and its response
    requests,         \* the PATCH /cv/update requests running side by side
    all_skills,       \* get_skills_for_job_positions' local all_skills
    positions_done,   \* the number of positions its loop has handled
    views             \* the csv directories there were since the call began

ref_vars == <<csv_files, hash_order, ref_call, ref_result>>
ext_vars == <<pc, cv_text, experiences, matched_roles, job_skills,
              explicit_skills, output>>
store_vars == <<parsed_files, upd_call, upd_result>>
pdf_vars == <<pdf, PYMUPDF_AVAILABLE, pdf_pc, use_strict_false, texts,
              first_page_failed, pdf_error, pdf_result>>
agent_vars == <<agent_pc, agent_in, agent_out, cv_record>>
upload_vars == <<upload_file, upload_pc, upload_done, upload_status>>
jobs_vars == <<db, job_call, job_response>>
race_vars == <<requests>>
reload_vars == <<all_skills, positions_done, views>>

NoneVal == <<"None">>

-----------------------------------------------------------------------------
(* Python str operations *)

\* the characters used, in code point order
Chars ==
    <<"\t", " ", ",",
      "A", "B", "C", "D", "E", "F", "G", "H", "I", "J", "K", "L", "M",
      "N", "O", "P", "Q", "R", "S", "T", "U", "V", "W", "X", "Y", "Z",
      "_",
      "a", "b", "c", "d", "e", "f", "g", "h", "i", "j", "k", "l", "m",
      "n", "o", "p", "q", "r", "s", "t", "u", "v", "w", "x", "y", "z">>

\* ord(c), as rank among the characters used
RECURSIVE ord_table(_)
ord_table(n) ==
    IF n = 1 THEN Chars[1] :> 1 ELSE ord_table(n - 1) @@ (Chars[n] :> n)

Ord == ord_table(Len(Chars))

Whitespace == {"\t", " "}

lower_table ==
    [A |-> "a", B |-> "b", C |-> "c", D |-> "d", E |-> "e", F |-> "f",
     G |-> "g", H |-> "h", I |-> "i", J |-> "j", K |-> "k", L |-> "l",
     M |-> "m", N |-> "n", O |-> "o", P |-> "p", Q |-> "q", R |-> "r",
     S |-> "s", T |-> "t", U |-> "u", V |-> "v", W |-> "w", X |-> "x",
     Y |-> "y", Z |-> "z"]

lower_char(c) == IF c \in DOMAIN lower_table THEN lower_table[c] ELSE c

\* a sequence given element by element, as a tuple
seq_of(f) == f \o <<>>

\* str.lower()
lower(s) == seq_of([i \in 1..Len(s) |-> lower_char(s[i])])

RECURSIVE lstrip(_)
lstrip(s) ==
    IF s # <<>> /\ Head(s) \in Whitespace THEN lstrip(Tail(s)) ELSE s

RECURSIVE rstrip(_)
rstrip(s) ==
    IF s # <<>> /\ s[Len(s)] \in Whitespace
    THEN rstrip(SubSeq(s, 1, Len(s) - 1)) ELSE s

\* str.strip()
strip(s) == rstrip(lstrip(s))

\* str.replace(" ", "_")
replace_space(s) ==
    seq_of([i \in 1..Len(s) |-> IF s[i] = " " THEN "_" ELSE s[i]])

\* s.find(",") from position i on (1-based; 0 when there is none)
RECURSIVE find_comma(_, _)
find_comma(s, i) ==
    IF i > Len(s) THEN 0
    ELSE IF s[i] = "," THEN i
    ELSE find_comma(s, i + 1)

\* str.split(",")
RECURSIVE split(_)
split(s) ==
    LET i == find_comma(s, 1)
    IN  IF i = 0 THEN <<s>>
        ELSE <<SubSeq(s, 1, i - 1)>> \o split(SubSeq(s, i + 1, Len(s)))

\* sub in text
contains(text, sub) ==
    \/ sub = <<>>
    \/ \E i \in 0..(Len(text) - Len(sub)) :
           text[i + 1] = sub[1] /\ SubSeq(text, i + 1, i + Len(sub)) = sub

\* a < b on str: code point order, a proper prefix sorts first
RECURSIVE str_less(_, _)
str_less(a, b) ==
    IF b = <<>> THEN FALSE
    ELSE IF a = <<>> THEN TRUE
    ELSE IF a[1] = b[1] THEN str_less(Tail(a), Tail(b))
    ELSE Ord[a[1]] < Ord[b[1]]

Range(s) == {s[i] : i \in 1..Len(s)}

\* the elements of a set, one after the other
RECURSIVE to_seq(_)
to_seq(S) ==
    IF S = {} THEN <<>>
    ELSE LET x == CHOOSE y \in S : TRUE
         IN  <<x>> \o to_seq(S \ {x})

\* sorted(S) of a set of str
sorted(S) == SortSeq(to_seq(S), str_less)

reversed(xs) == seq_of([i \in 1..Len(xs) |-> xs[Len(xs) + 1 - i]])

sorted_desc(S) == reversed(sorted(S))

-----------------------------------------------------------------------------
(* The reference data: bounds and the pools the inputs are drawn from *)

MaxSources == 2      \* at most this many csv files on disk
MaxRoles == 3        \* at most this many experience entries in a CV
BigSkillCount == 21  \* number of distinct skills in the largest source row

LowerLetters == SubSeq(Chars, Ord["a"], Ord["z"])

\* "a,b,c,..." with n tokens
RECURSIVE letter_csv(_)
letter_csv(n) ==
    IF n = 0 THEN <<>>
    ELSE IF n = 1 THEN <<LowerLetters[1]>>
    ELSE letter_csv(n - 1) \o <<",", LowerLetters[n]>>


\* the strings of the cases below
word ==
    [col_job_title |-> <<"J", "o", "b", " ", "T", "i", "t", "l", "e">>,
     col_skills |-> <<" ", "s", "k", "i", "l", "l", "s">>,
     job_title |-> <<"j", "o", "b", "_", "t", "i", "t", "l", "e">>,
     skills |-> <<"s", "k", "i", "l", "l", "s">>,
     Backend_Engineer |-> <<"B", "a", "c", "k", "e", "n", "d", " ", "E", "n",
         "g", "i", "n", "e", "e", "r">>,
     BACKEND_ENGINEER |-> <<"B", "A", "C", "K", "E", "N", "D", " ", "E", "N",
         "G", "I", "N", "E", "E", "R">>,
     Data_Engineer |-> <<"D", "a", "t", "a", " ", "E", "n", "g", "i", "n",
         "e", "e", "r">>,
     data_engineer |-> lower(<<"D", "a", "t", "a", " ", "E", "n", "g", "i",
         "n", "e", "e", "r">>),
     data_engineer_padded |-> <<"\t">> \o (lower(<<"D", "a", "t", "a", " ",
         "E", "n", "g", "i", "n", "e", "e", "r">>)) \o <<" ">>,
     Senior_Data_Engineer |-> <<"S", "e", "n", "i", "o", "r", " ">> \o
         <<"D", "a", "t", "a", " ", "E", "n", "g", "i", "n", "e", "e",
         "r">>,
     Data_Engineer_spaced |-> <<" ", " ">> \o <<"D", "a", "t", "a", " ",
         "E", "n", "g", "i", "n", "e", "e", "r">> \o <<"\t">>,
     QA |-> <<"Q", "A">>,
     qa_padded |-> <<" ", "q", "a", "\t">>,
     python_sql |-> <<"p", "y", "t", "h", "o", "n", ",", " ", "s", "q", "l">>,
     docker |-> <<"d", "o", "c", "k", "e", "r">>,
     python |-> <<"p", "y", "t", "h", "o", "n">>,
     sql |-> <<"s", "q", "l">>,
     text_plain |-> <<"I", " ", "k", "n", "o", "w", " ", "P", "Y", "T", "H",
         "O", "N", " ", "a", "n", "d", " ", "S", "q", "l">>,
     text_letters |-> LowerLetters \o <<" ">> \o <<"d", "o", "c", "k", "e",
         "r">>,
     X |-> <<"X">>,
     phone_123 |-> <<"1", "2", "3">>,
     phone_555 |-> <<"5", "5", "5">>,
     Ana |-> <<"A", "n", "a">>,
     Bo |-> <<"B", "o">>,
     thesis |-> <<"t", "h", "e", "s", "i", "s">>,
     app |-> <<"a", "p", "p">>,
     led |-> <<"l", "e", "d">>,
     aws |-> <<"a", "w", "s">>,
     scrum |-> <<"s", "c", "r", "u", "m">>,
     headline |-> <<" ", "d", "a", "t", "a", "\t", " ", "e", "n", "g", " ">>,
     engineer |-> <<"e", "n", "g">>]

\* one csv file: its header and its rows, as pandas reads them (cells as str)
Source(cols, rows) == [columns |-> cols, rows |-> rows]
Row(t, s) == [job_title |-> t, skills |-> s]

GoodCols == <<word.col_job_title, word.col_skills>>

\* " A ,, B , c,d,..." : n distinct tokens, with capitals, gaps and empty tokens
big_skills_cell(n) ==
    <<" ", "A", " ", ",", ",", " ", "B", " ", ",", " ">> \o
    SubSeq(letter_csv(n), 5, 2 * n - 1)

SourcePool ==
    { Source(GoodCols, <<Row(word.Backend_Engineer, word.python_sql)>>),
      Source(GoodCols, <<Row(word.Backend_Engineer, word.docker),
                         Row(word.data_engineer_padded, big_skills_cell(BigSkillCount)),
                         Row(word.QA, <<",", " ">>)>>) }

\* files without a skills column, without a job title column
BadSourcePool ==
    { Source(<<word.col_job_title, word.X>>,
             <<Row(word.QA, word.sql)>>),
      Source(<<word.Data_Engineer, word.col_skills>>,
             <<Row(word.Data_Engineer, word.python)>>) }

RECURSIVE SeqsUpTo(_, _)
SeqsUpTo(S, n) ==
    IF n = 0 THEN {<<>>}
    ELSE LET shorter == SeqsUpTo(S, n - 1)
         IN  shorter \cup {Append(q, x) : q \in shorter, x \in S}

NoRepeats(q) == \A i, j \in 1..Len(q) : i # j => q[i] # q[j]

\* the possible contents of the data directory: files of different content
CsvDirs == {q \in SeqsUpTo(SourcePool, MaxSources) : NoRepeats(q)}

\* the same, where files of another schema may lie among them
AnyCsvDirs ==
    {q \in SeqsUpTo(SourcePool \cup BadSourcePool, MaxSources) : NoRepeats(q)}

-----------------------------------------------------------------------------
(* job_skill_db.py *)

\* df.columns.str.strip().str.lower().str.replace(" ", "_")
normalize_columns(cols) ==
    seq_of([i \in 1..Len(cols) |-> replace_space(lower(strip(cols[i])))])

\* the two .astype(str).str.lower().str.strip() of one file
normalize_rows(rows) ==
    seq_of([i \in 1..Len(rows) |->
        Row(strip(lower(rows[i].job_title)), strip(lower(rows[i].skills)))])

schema_ok(src) ==
    /\ word.job_title \in Range(normalize_columns(src.columns))
    /\ word.skills \in Range(normalize_columns(src.columns))

\* the same, looking at the first file only
load_error_first_file(files) ==
    IF files = <<>> THEN "nodata"
    ELSE IF ~schema_ok(files[1]) THEN "schema"
    ELSE "ok"

\* the ValueError load_all_job_skill_dbs raises on these files, or "ok"
load_error(files) ==
    IF \E i \in 1..Len(files) : ~schema_ok(files[i]) THEN "schema"
    ELSE IF files = <<>> THEN "nodata"
    ELSE "ok"

RECURSIVE concat_rows(_)
concat_rows(files) ==
    IF files = <<>> THEN <<>>
    ELSE normalize_rows(Head(files).rows) \o concat_rows(Tail(files))

\* the DataFrame load_all_job_skill_dbs returns when it raises nothing
load_all_job_skill_dbs(files) == concat_rows(files)

\* the tokens of one skills cell: s.strip() for s in split(",") if s.strip()
skill_tokens(cell) ==
    {strip(t) : t \in {u \in Range(split(cell)) : strip(u) # <<>>}}

\* the skills of the first row of the role only
get_skills_for_job_first_row(files, job_role) ==
    LET df == load_all_job_skill_dbs(files)
        rows == SelectSeq(df, LAMBDA r : r.job_title = strip(lower(job_role)))
    IN  IF rows = <<>> THEN {} ELSE skill_tokens(rows[1].skills)

get_skills_for_job(files, job_role) ==
    LET df == load_all_job_skill_dbs(files)
        role == strip(lower(job_role))
    IN  UNION {skill_tokens(df[i].skills) :
                  i \in {k \in 1..Len(df) : df[k].job_title = role}}

get_all_job_titles(files) ==
    LET df == load_all_job_skill_dbs(files)
    IN  {df[i].job_title : i \in 1..Len(df)}

get_all_skills(files) ==
    LET df == load_all_job_skill_dbs(files)
    IN  UNION {skill_tokens(df[i].skills) : i \in 1..Len(df)}

get_skills_for_job_positions(files, job_positions) ==
    UNION {get_skills_for_job(files, job_positions[i]) :
              i \in 1..Len(job_positions)}

\* iteration over a Python set of str: the order depends on the hash seed the
\* process started with; two orders stand for the possible ones
SetOrders == {"asc", "desc"}

iter(S, order) == IF order = "asc" THEN sorted(S) ELSE sorted_desc(S)

index_of_match(titles, position_lower) ==
    CHOOSE k \in 1..Len(titles) :
        /\ position_lower = lower(titles[k])
        /\ \A j \in 1..(k - 1) : position_lower # lower(titles[j])

\* a loop body that takes the first title contained in the position
filter_step_substring(titles, matched_titles, position) ==
    LET position_lower == strip(lower(position))
        hits == {k \in 1..Len(titles) : contains(position_lower, lower(titles[k]))}
    IN  IF hits # {}
        THEN LET title == titles[CHOOSE k \in hits : \A j \in hits : k <= j]
             IN  IF title \notin Range(matched_titles)
                 THEN Append(matched_titles, title)
                 ELSE matched_titles
        ELSE matched_titles

\* the loop body for one position, on the list matched so far
filter_step(titles, matched_titles, position) ==
    LET position_lower == strip(lower(position))
    IN  IF \E k \in 1..Len(titles) : position_lower = lower(titles[k])
        THEN LET title == titles[index_of_match(titles, position_lower)]
             IN  IF title \notin Range(matched_titles)
                 THEN Append(matched_titles, title)
                 ELSE matched_titles
        ELSE matched_titles

RECURSIVE filter_loop(_, _, _)
filter_loop(titles, matched_titles, job_positions) ==
    IF job_positions = <<>> THEN matched_titles
    ELSE filter_loop(titles,
                     filter_step(titles, matched_titles, Head(job_positions)),
                     Tail(job_positions))

filter_job_positions_in_csv(files, order, job_positions) ==
    filter_loop(iter(get_all_job_titles(files), order), <<>>, job_positions)

-----------------------------------------------------------------------------
(* ner_filter.py *)

\* the canonical titles, in the set's iteration order, that equal some role
\* after the role is lower-cased and trimmed
match_roles_to_csv_titles(experience_roles, csv_titles, order) ==
    SelectSeq(iter(csv_titles, order),
              LAMBDA t : \E i \in 1..Len(experience_roles) :
                             strip(lower(experience_roles[i])) = lower(t))

\* the reference skills, in the set's iteration order, that occur in the text
extract_explicit_skills(text, all_csv_skills, order) ==
    LET text_lower == lower(text)
    IN  SelectSeq(iter(all_csv_skills, order),
                  LAMBDA sk : contains(text_lower, lower(sk)))

-----------------------------------------------------------------------------
(* extraction_service.py *)

MAX_SKILLS == 20

Min(a, b) == IF a <= b THEN a ELSE b

\* xs[:]
slice_uncapped(xs) == xs

\* xs[:MAX_SKILLS]
slice_max_skills(xs) == SubSeq(xs, 1, Min(Len(xs), MAX_SKILLS))


\* what extract_text_from_pdf may return
TextPool == {word.text_plain, word.text_letters}

\* the role field the experience agent may return for one entry
RolePool ==
    {word.Data_Engineer, word.BACKEND_ENGINEER, word.qa_padded, NoneVal, <<>>}

\* a filter on "is not None" instead of on the truth value
experience_roles_not_none(exps) == SelectSeq(exps, LAMBDA r : r # NoneVal)

\* [exp.get("role", "") for exp in experiences if exp.get("role")]
experience_roles_of(exps) ==
    SelectSeq(exps, LAMBDA r : r # NoneVal /\ r # <<>>)

\* the skills of the first matched role only
job_skills_first_role(files, roles) ==
    slice_max_skills(sorted(get_skills_for_job(files, roles[1])))

\* lines 70-76: both branches of the len(matched_roles) test
job_skills_of(files, roles) ==
    LET all_role_skills == get_skills_for_job_positions(files, roles)
    IN  IF Len(roles) <= 2
        THEN slice_max_skills(sorted(all_role_skills))
        ELSE slice_max_skills(sorted(all_role_skills))

\* a scan for the skills of the matched roles only
explicit_skills_from_roles(files, roles, text, order) ==
    slice_max_skills(extract_explicit_skills(
        text, get_skills_for_job_positions(files, roles), order))

\* lines 79-81
explicit_skills_of(files, roles, text, order) ==
    slice_max_skills(extract_explicit_skills(text, get_all_skills(files), order))

\* no call made yet on the reference store
RefIdle ==
    /\ ref_call = [fn |-> "none"]
    /\ ref_result = [outcome |-> "none"]

\* a value of the JSON a completion holds: null, a number, a string (its
\* characters) or a list (its entries)
Json(t, v) == [type |-> t, value |-> v]

Returns(v) == [outcome |-> "returned", value |-> v]
Raises(e) == [outcome |-> "raised", value |-> e]

\* what a function of job_skill_db.py gives when its load raises or not
result_of(files, v) ==
    IF load_error(files) # "ok"
    THEN Raises(<<"ValueError", load_error(files)>>)
    ELSE Returns(v)

\* a decoding whose failure is swallowed: the agents run on no text
decode_text_unchecked ==
    /\ pc = "DecodeText"
    /\ \/ \E text \in TextPool : cv_text' = text
       \/ UNCHANGED cv_text
    /\ pc' = "RunFieldAgents"
    /\ UNCHANGED <<experiences, matched_roles, job_skills, explicit_skills,
                   output, ref_vars, store_vars, pdf_vars, agent_vars,
                   upload_vars, jobs_vars, race_vars, reload_vars>>

\* line 35: extract_text_from_pdf returns a text or raises
DecodeText ==
    /\ pc = "DecodeText"
    /\ \/ \E text \in TextPool :
              /\ cv_text' = text
              /\ pc' = "RunFieldAgents"
       \/ /\ pc' = "failed"
          /\ UNCHANGED cv_text
    /\ UNCHANGED <<experiences, matched_roles, job_skills, explicit_skills,
                   output, ref_vars, store_vars, pdf_vars, agent_vars, upload_vars, jobs_vars, race_vars, reload_vars>>

\* lines 38-51: the five agents; any of them may raise
RunFieldAgents ==
    /\ pc = "RunFieldAgents"
    /\ \/ \E exps \in SeqsUpTo(RolePool, MaxRoles) :
              /\ experiences' = exps
              /\ pc' = "ResolveRoles"
       \/ /\ pc' = "failed"
          /\ UNCHANGED experiences
    /\ UNCHANGED <<cv_text, matched_roles, job_skills, explicit_skills,
                   output, ref_vars, store_vars, pdf_vars, agent_vars, upload_vars, jobs_vars, race_vars, reload_vars>>

\* the roles matched by filter_job_positions_in_csv instead
resolve_roles_with_filter ==
    /\ pc = "ResolveRoles"
    /\ LET experience_roles == experience_roles_of(experiences)
       IN  IF experience_roles # <<>>
           THEN /\ ref_call' = [fn |-> "get_all_job_titles", arg |-> <<>>]
                /\ ref_result' =
                       result_of(csv_files, get_all_job_titles(csv_files))
                /\ IF load_error(csv_files) # "ok"
                   THEN /\ pc' = "failed"
                        /\ UNCHANGED matched_roles
                   ELSE /\ matched_roles' = filter_job_positions_in_csv(
                               csv_files, hash_order, experience_roles)
                        /\ pc' = "SelectSkills"
           ELSE /\ pc' = "SelectSkills"
                /\ UNCHANGED <<matched_roles, ref_call, ref_result>>
    /\ UNCHANGED <<cv_text, experiences, job_skills, explicit_skills,
                   output, csv_files, hash_order, store_vars, pdf_vars,
                   agent_vars, upload_vars, jobs_vars, race_vars, reload_vars>>

\* lines 54-66
ResolveRoles ==
    /\ pc = "ResolveRoles"
    /\ LET experience_roles == experience_roles_of(experiences)
       IN  IF experience_roles # <<>>
           THEN /\ ref_call' = [fn |-> "get_all_job_titles", arg |-> <<>>]
                /\ ref_result' =
                       result_of(csv_files, get_all_job_titles(csv_files))
                /\ IF load_error(csv_files) # "ok"
                   THEN /\ pc' = "failed"
                        /\ UNCHANGED matched_roles
                   ELSE /\ matched_roles' = match_roles_to_csv_titles(
                               experience_roles, get_all_job_titles(csv_files),
                               hash_order)
                        /\ pc' = "SelectSkills"
           ELSE /\ pc' = "SelectSkills"
                /\ UNCHANGED <<matched_roles, ref_call, ref_result>>
    /\ UNCHANGED <<cv_text, experiences, job_skills, explicit_skills,
                   output, csv_files, hash_order, store_vars, pdf_vars,
                   agent_vars, upload_vars, jobs_vars, race_vars, reload_vars>>

\* a selection that does not look at matched_roles
select_skills_always ==
    /\ pc = "SelectSkills"
    /\ job_skills' = job_skills_of(csv_files, matched_roles)
    /\ explicit_skills' =
           IF load_error(csv_files) = "ok"
           THEN explicit_skills_of(csv_files, matched_roles, cv_text, hash_order)
           ELSE <<>>
    /\ pc' = "Assemble"
    /\ UNCHANGED <<cv_text, experiences, matched_roles, output, ref_vars, store_vars, pdf_vars, agent_vars, upload_vars, jobs_vars, race_vars, reload_vars>>

\* lines 68-81
SelectSkills ==
    /\ pc = "SelectSkills"
    /\ IF matched_roles # <<>>
       THEN /\ job_skills' = job_skills_of(csv_files, matched_roles)
            /\ explicit_skills' = explicit_skills_of(
                   csv_files, matched_roles, cv_text, hash_order)
            /\ ref_call' = [fn |-> "get_all_skills", arg |-> <<>>]
            /\ ref_result' = result_of(csv_files, get_all_skills(csv_files))
       ELSE UNCHANGED <<job_skills, explicit_skills, ref_call, ref_result>>
    /\ pc' = "Assemble"
    /\ UNCHANGED <<cv_text, experiences, matched_roles, output, csv_files,
                   hash_order, store_vars, pdf_vars, agent_vars, upload_vars,
                   jobs_vars, race_vars, reload_vars>>

\* lines 83-109
Assemble ==
    /\ pc = "Assemble"
    /\ output' = [skills_analysis |->
                     [explicit_skills |-> explicit_skills,
                      related_roles |-> matched_roles,
                      job_related_skills |-> job_skills]]
    /\ pc' = "done"
    /\ UNCHANGED <<cv_text, experiences, matched_roles, job_skills,
                   explicit_skills, ref_vars, store_vars, pdf_vars, agent_vars, upload_vars, jobs_vars, race_vars, reload_vars>>

vars == <<ref_vars, ext_vars, store_vars, pdf_vars, agent_vars, upload_vars, jobs_vars, race_vars, reload_vars>>

\* no extract_cv_from_pdf call running
ExtIdle ==
    /\ pc = "idle"
    /\ cv_text = NoneVal
    /\ experiences = <<>>
    /\ matched_roles = <<>>
    /\ job_skills = <<>>
    /\ explicit_skills = <<>>
    /\ output = [skills_analysis |-> NoneVal]

\* no parsed record stored, no update requested
StoreIdle ==
    /\ parsed_files = <<>>
    /\ upd_call = [fn |-> "none"]
    /\ upd_result = [status_code |-> 0]

\* no extract_text_from_pdf call running
PdfIdle ==
    /\ pdf = [open_strict |-> "none"]
    /\ PYMUPDF_AVAILABLE = FALSE
    /\ pdf_pc = "idle"
    /\ use_strict_false = FALSE
    /\ texts = <<>>
    /\ first_page_failed = FALSE
    /\ pdf_error = "none"
    /\ pdf_result = [outcome |-> "none"]

\* no agent invoked
AgentIdle ==
    /\ agent_pc = "idle"
    /\ agent_in = [agent |-> "none"]
    /\ agent_out = [identity |-> [headline |-> [type |-> "null", value |-> <<>>]]]
    /\ cv_record = [identity |-> NoneVal]

\* no upload received
UploadIdle ==
    /\ upload_file = [filename |-> <<>>]
    /\ upload_pc = "idle"
    /\ upload_done = {}
    /\ upload_status = 0

\* no job, no application, no request
JobsIdle ==
    /\ db = [job_position |-> {}, applications |-> {},
             job_seq |-> 0, application_seq |-> 0]
    /\ job_call = [fn |-> "none"]
    /\ job_response = [status_code |-> 0, data |-> {}]

\* no PATCH /cv/update request running beside another
RaceIdle == requests = <<>>

\* no get_skills_for_job_positions call running
ReloadIdle ==
    /\ all_skills = {}
    /\ positions_done = 0
    /\ views = {}

\* one call of extract_cv_from_pdf, for any reference data
Init ==
    /\ csv_files \in CsvDirs
    /\ hash_order \in SetOrders
    /\ RefIdle
    /\ pc = "DecodeText"
    /\ cv_text = NoneVal
    /\ experiences = <<>>
    /\ matched_roles = <<>>
    /\ job_skills = <<>>
    /\ explicit_skills = <<>>
    /\ output = [skills_analysis |-> NoneVal]
    /\ StoreIdle
    /\ PdfIdle
    /\ AgentIdle
    /\ UploadIdle
    /\ JobsIdle
    /\ RaceIdle
    /\ ReloadIdle

Next ==
    \/ DecodeText
    \/ RunFieldAgents
    \/ ResolveRoles
    \/ SelectSkills
    \/ Assemble

Spec == Init /\ [][Next]_vars

\* a step that leaves the stage the call is in
LeaveStage ==
    /\ pc \notin {"done", "failed"}
    /\ pc' \in {"RunFieldAgents", "ResolveRoles", "SelectSkills", "Assemble",
                "done", "failed"} \ {pc}

\* the same call where every collaborator call returns or raises, so the
\* call does not stay in a stage for ever
SpecLive == Spec /\ WF_pc(LeaveStage)

\* the same call while the csv directory is replaced under it: every load of
\* load_all_job_skill_dbs reads the directory as it is then
MaxViews == 2    \* the directory is replaced at most MaxViews - 1 times

\* line 70, job_skill_db.py lines 136-146: one turn of the loop, with the
\* load get_skills_for_job makes
GetSkillsForJob ==
    /\ pc = "SelectSkills"
    /\ positions_done < Len(matched_roles)
    /\ IF load_error(csv_files) # "ok"
       THEN /\ pc' = "failed"
            /\ UNCHANGED <<all_skills, positions_done>>
       ELSE /\ all_skills' =
                   all_skills \cup get_skills_for_job(
                       csv_files, matched_roles[positions_done + 1])
            /\ positions_done' = positions_done + 1
            /\ UNCHANGED pc
    /\ ref_call' = [fn |-> "get_skills_for_job",
                    arg |-> matched_roles[positions_done + 1]]
    /\ ref_result' =
           result_of(csv_files,
                     get_skills_for_job(csv_files,
                                        matched_roles[positions_done + 1]))
    /\ UNCHANGED <<cv_text, experiences, matched_roles, job_skills,
                   explicit_skills, output, csv_files, hash_order, views,
                   store_vars, pdf_vars, agent_vars, upload_vars, jobs_vars,
                   race_vars>>

\* lines 68 and 72-81: the sorted prefix of the skills collected, and the
\* scan for the skills get_all_skills loads
ScanExplicitSkills ==
    /\ pc = "SelectSkills"
    /\ positions_done = Len(matched_roles)
    /\ IF matched_roles = <<>>
       THEN /\ pc' = "Assemble"
            /\ UNCHANGED <<job_skills, explicit_skills, ref_call, ref_result>>
       ELSE /\ job_skills' = slice_max_skills(sorted(all_skills))
            /\ ref_call' = [fn |-> "get_all_skills", arg |-> <<>>]
            /\ ref_result' = result_of(csv_files, get_all_skills(csv_files))
            /\ IF load_error(csv_files) # "ok"
               THEN /\ pc' = "failed"
                    /\ UNCHANGED explicit_skills
               ELSE /\ explicit_skills' = explicit_skills_of(
                           csv_files, matched_roles, cv_text, hash_order)
                    /\ pc' = "Assemble"
    /\ UNCHANGED <<cv_text, experiences, matched_roles, output, csv_files,
                   hash_order, reload_vars, store_vars, pdf_vars, agent_vars,
                   upload_vars, jobs_vars, race_vars>>

\* the files of the directory are replaced between two loads of the call
ReplaceTables ==
    /\ pc = "SelectSkills"
    /\ Cardinality(views) < MaxViews
    /\ \E files \in CsvDirs \ views :
           /\ csv_files' = files
           /\ views' = views \cup {files}
    /\ UNCHANGED <<hash_order, ref_call, ref_result, all_skills, positions_done,
                   ext_vars, store_vars, pdf_vars, agent_vars, upload_vars,
                   jobs_vars, race_vars>>

InitReload ==
    /\ csv_files \in CsvDirs
    /\ hash_order \in SetOrders
    /\ RefIdle
    /\ pc = "DecodeText"
    /\ cv_text = NoneVal
    /\ experiences = <<>>
    /\ matched_roles = <<>>
    /\ job_skills = <<>>
    /\ explicit_skills = <<>>
    /\ output = [skills_analysis |-> NoneVal]
    /\ StoreIdle
    /\ PdfIdle
    /\ AgentIdle
    /\ UploadIdle
    /\ JobsIdle
    /\ RaceIdle
    /\ all_skills = {}
    /\ positions_done = 0
    /\ views = {csv_files}

NextReload ==
    \/ DecodeText
    \/ RunFieldAgents
    \/ ResolveRoles
    \/ GetSkillsForJob
    \/ ScanExplicitSkills
    \/ Assemble
    \/ ReplaceTables

SpecReload == InitReload /\ [][NextReload]_vars

-----------------------------------------------------------------------------
(* One call on the reference store, for any reference data *)

MaxPositions == 2    \* at most this many positions in one call

\* the job roles and positions callers pass
PositionPool ==
    {word.Data_Engineer, word.Data_Engineer_spaced, word.Senior_Data_Engineer,
     word.Backend_Engineer, word.BACKEND_ENGINEER, word.qa_padded}

CallLoadAllJobSkillDbs ==
    /\ ref_call.fn = "none"
    /\ ref_call' = [fn |-> "load_all_job_skill_dbs", arg |-> <<>>]
    /\ ref_result' = result_of(csv_files, load_all_job_skill_dbs(csv_files))
    /\ UNCHANGED <<csv_files, hash_order, ext_vars, store_vars, pdf_vars, agent_vars, upload_vars, jobs_vars, race_vars, reload_vars>>

CallGetSkillsForJob ==
    /\ ref_call.fn = "none"
    /\ \E job_role \in PositionPool :
           /\ ref_call' = [fn |-> "get_skills_for_job", arg |-> job_role]
           /\ ref_result' =
                  result_of(csv_files, get_skills_for_job(csv_files, job_role))
    /\ UNCHANGED <<csv_files, hash_order, ext_vars, store_vars, pdf_vars, agent_vars, upload_vars, jobs_vars, race_vars, reload_vars>>

CallGetAllJobTitles ==
    /\ ref_call.fn = "none"
    /\ ref_call' = [fn |-> "get_all_job_titles", arg |-> <<>>]
    /\ ref_result' = result_of(csv_files, get_all_job_titles(csv_files))
    /\ UNCHANGED <<csv_files, hash_order, ext_vars, store_vars, pdf_vars, agent_vars, upload_vars, jobs_vars, race_vars, reload_vars>>

CallGetAllSkills ==
    /\ ref_call.fn = "none"
    /\ ref_call' = [fn |-> "get_all_skills", arg |-> <<>>]
    /\ ref_result' = result_of(csv_files, get_all_skills(csv_files))
    /\ UNCHANGED <<csv_files, hash_order, ext_vars, store_vars, pdf_vars, agent_vars, upload_vars, jobs_vars, race_vars, reload_vars>>

CallFilterJobPositionsInCsv ==
    /\ ref_call.fn = "none"
    /\ \E job_positions \in SeqsUpTo(PositionPool, MaxPositions) :
           /\ ref_call' = [fn |-> "filter_job_positions_in_csv",
                           arg |-> job_positions]
           /\ ref_result' =
                  result_of(csv_files,
                            filter_job_positions_in_csv(csv_files, hash_order,
                                                        job_positions))
    /\ UNCHANGED <<csv_files, hash_order, ext_vars, store_vars, pdf_vars, agent_vars, upload_vars, jobs_vars, race_vars, reload_vars>>

\* with no position the loop body never runs and nothing is loaded
CallGetSkillsForJobPositions ==
    /\ ref_call.fn = "none"
    /\ \E job_positions \in SeqsUpTo(PositionPool, MaxPositions) :
           /\ ref_call' = [fn |-> "get_skills_for_job_positions",
                           arg |-> job_positions]
           /\ ref_result' =
                  IF job_positions = <<>> THEN Returns({})
                  ELSE result_of(csv_files,
                                 get_skills_for_job_positions(csv_files,
                                                              job_positions))
    /\ UNCHANGED <<csv_files, hash_order, ext_vars, store_vars, pdf_vars, agent_vars, upload_vars, jobs_vars, race_vars, reload_vars>>

InitRef ==
    /\ csv_files \in AnyCsvDirs
    /\ hash_order \in SetOrders
    /\ RefIdle
    /\ ExtIdle
    /\ StoreIdle
    /\ PdfIdle
    /\ AgentIdle
    /\ UploadIdle
    /\ JobsIdle
    /\ RaceIdle
    /\ ReloadIdle

NextRef ==
    \/ CallLoadAllJobSkillDbs
    \/ CallGetSkillsForJob
    \/ CallGetAllJobTitles
    \/ CallGetAllSkills
    \/ CallFilterJobPositionsInCsv
    \/ CallGetSkillsForJobPositions

SpecRef == InitRef /\ [][NextRef]_vars

-----------------------------------------------------------------------------
(* storage_service.py and PATCH /cv/update (api/cv.py) *)

MaxFiles == 2    \* at most this many parsed records stored for the user
MaxClock == 2    \* updated_at takes the values 1..MaxClock

IdentityKeys ==
    {"full_name", "headline", "introduction", "email", "phone", "location"}


\* two records as extract_cv_from_pdf assembles them (lines 95-107); the
\* entries of the sections and the skill names are opaque here
record_ana ==
    [metadata |-> [extraction_date |-> 1],
     identity |-> [full_name |-> word.Ana, headline |-> NoneVal,
                   introduction |-> NoneVal, email |-> NoneVal,
                   phone |-> word.phone_123, location |-> NoneVal],
     experience |-> <<"exp_1", "exp_2">>,
     education |-> <<"edu_1">>,
     projects |-> <<>>,
     certifications |-> <<"cert_1">>,
     skills_analysis |-> [explicit_skills |-> <<"python">>,
                          related_roles |-> <<"qa">>,
                          job_related_skills |-> <<"docker", "sql">>]]

record_bo ==
    [metadata |-> [extraction_date |-> 2],
     identity |-> [full_name |-> word.Bo, headline |-> word.X,
                   introduction |-> NoneVal, email |-> word.X,
                   phone |-> NoneVal, location |-> NoneVal],
     experience |-> <<>>,
     education |-> <<>>,
     projects |-> <<"proj_1">>,
     certifications |-> <<>>,
     skills_analysis |-> [explicit_skills |-> <<>>,
                          related_roles |-> <<>>,
                          job_related_skills |-> <<>>]]

RecordPool == {record_ana, record_bo}

\* a CVUpdateRequest; a field left out of the request has its default, None
CVUpdateRequest(fn, hl, intro, em, ph, loc, sk) ==
    [full_name |-> fn, headline |-> hl, introduction |-> intro, email |-> em,
     phone |-> ph, location |-> loc, selected_skills |-> sk]

\* request bodies
request ==
    [nothing |->
         CVUpdateRequest(NoneVal, NoneVal, NoneVal, NoneVal, NoneVal, NoneVal, NoneVal),
     headline |->
         CVUpdateRequest(NoneVal, word.X, NoneVal, NoneVal, NoneVal, NoneVal, NoneVal),
     phone_skills |->
         CVUpdateRequest(NoneVal, NoneVal, NoneVal, NoneVal, word.phone_555, NoneVal,
                         <<"go", "rust">>),
     no_skills |->
         CVUpdateRequest(NoneVal, NoneVal, NoneVal, NoneVal, NoneVal, NoneVal, <<>>),
     blank_name |->
         CVUpdateRequest(<<>>, NoneVal, NoneVal, word.X, NoneVal, NoneVal, NoneVal),
     everything |->
         CVUpdateRequest(word.Bo, word.phone_123, word.X, word.Ana, word.X,
                         word.phone_555, <<"go">>)]

\* the last one selects the BigSkillCount skills "a", "b", ...
BodyPool ==
    {request.nothing, request.headline, request.phone_skills, request.no_skills,
     request.blank_name, request.everything,
     CVUpdateRequest(NoneVal, NoneVal, NoneVal, NoneVal, NoneVal, NoneVal,
                     SubSeq(LowerLetters, 1, BigSkillCount))}

\* updates.dict(exclude_unset=True, exclude_none=True)
exclude_none(body) ==
    [k \in {f \in DOMAIN body : body[f] # NoneVal} |-> body[k]]

\* d.get(k)
dict_get(d, k) == IF k \in DOMAIN d THEN d[k] ELSE NoneVal

\* d with d[k] = v
dict_set(d, k, v) ==
    [f \in DOMAIN d \cup {k} |-> IF f = k THEN v ELSE d[f]]

\* a sort key: an updated_at value sorts as <<0, t>>, a filename timestamp as
\* <<1, t>> ("2024-..." is below "2024MMDD_..." in str order)
key_less(a, b) == a[1] < b[1] \/ (a[1] = b[1] /\ a[2] < b[2])

extract_timestamp(file_info) == <<1, file_info.name>>

\* key of the second sort: updated_at when there is one, else the timestamp
metadata_key(file_info) ==
    IF file_info.updated_at # 0
    THEN <<0, file_info.updated_at>>
    ELSE extract_timestamp(file_info)

remove_at(xs, i) == SubSeq(xs, 1, i - 1) \o SubSeq(xs, i + 1, Len(xs))

\* position of the first element with a greatest key
first_greatest(keys) ==
    CHOOSE i \in 1..Len(keys) :
        /\ \A j \in 1..Len(keys) : ~key_less(keys[i], keys[j])
        /\ \A j \in 1..(i - 1) : key_less(keys[j], keys[i])

\* list.sort(key=..., reverse=True) by timestamp: descending, equal keys keep
\* their order
RECURSIVE sort_by_timestamp(_)
sort_by_timestamp(files) ==
    IF files = <<>> THEN <<>>
    ELSE LET i == first_greatest(
                      [k \in 1..Len(files) |-> extract_timestamp(files[k])])
         IN  <<files[i]>> \o sort_by_timestamp(remove_at(files, i))

\* the same by the key of the second sort
RECURSIVE sort_by_metadata(_)
sort_by_metadata(files) ==
    IF files = <<>> THEN <<>>
    ELSE LET i == first_greatest(
                      [k \in 1..Len(files) |-> metadata_key(files[k])])
         IN  <<files[i]>> \o sort_by_metadata(remove_at(files, i))

\* get_parsed_cv(timestamp=None) on a non-empty listing: the object read
latest_file(files) == sort_by_metadata(sort_by_timestamp(files))[1]

get_parsed_cv(files) == latest_file(files).content

\* the loop of lines 122-129 and again of lines 206-211 where it falls back
\* on the first object listed
find_version_or_first(files, timestamp) ==
    IF \E i \in 1..Len(files) : files[i].name = timestamp
    THEN CHOOSE i \in 1..Len(files) : files[i].name = timestamp
    ELSE IF files = <<>> THEN 0 ELSE 1

\* the loop of lines 122-129 and again of lines 206-211: the position of the
\* first object listed whose name starts with the timestamp, 0 when there is
\* none (a name is its timestamp here, and timestamps are given whole)
find_version(files, timestamp) ==
    IF \E i \in 1..Len(files) : files[i].name = timestamp
    THEN CHOOSE i \in 1..Len(files) :
             /\ files[i].name = timestamp
             /\ \A j \in 1..(i - 1) : files[j].name # timestamp
    ELSE 0

\* lines 213-244: the name of the object update_parsed_cv writes to
update_file_path(files) == sort_by_metadata(files)[1].name

\* a merge that stores identity_updates as the identity
merge_updates_replace_identity(cv_data, updates) ==
    LET identity_updates == [k \in IdentityKeys |-> dict_get(updates, k)]
        with_identity == dict_set(cv_data, "identity", identity_updates)
    IN  IF dict_get(updates, "selected_skills") # NoneVal
        THEN dict_set(with_identity, "skills_analysis",
                      dict_set(cv_data.skills_analysis, "explicit_skills",
                               updates["selected_skills"]))
        ELSE with_identity

\* lines 246-270
merge_updates(cv_data, updates) ==
    LET identity == IF "identity" \in DOMAIN cv_data
                    THEN cv_data["identity"] ELSE <<>>
        identity_updates == [k \in IdentityKeys |-> dict_get(updates, k)]
        given == {k \in IdentityKeys : identity_updates[k] # NoneVal}
        new_identity ==
            [k \in DOMAIN identity \cup given |->
                IF k \in given THEN identity_updates[k] ELSE identity[k]]
        with_identity == dict_set(cv_data, "identity", new_identity)
        skills_analysis == IF "skills_analysis" \in DOMAIN cv_data
                           THEN cv_data["skills_analysis"] ELSE <<>>
    IN  IF "selected_skills" \in DOMAIN updates
           /\ updates["selected_skills"] # NoneVal
        THEN dict_set(with_identity, "skills_analysis",
                      dict_set(skills_analysis, "explicit_skills",
                               updates["selected_skills"]))
        ELSE with_identity

\* the greatest updated_at among the stored objects
latest_updated_at(files) ==
    IF files = <<>> THEN 0
    ELSE LET i == CHOOSE i \in 1..Len(files) :
                      \A j \in 1..Len(files) :
                          files[j].updated_at <= files[i].updated_at
         IN  files[i].updated_at

\* the times the storage may stamp on a write made now
Now(files) == {t \in 1..MaxClock : t >= latest_updated_at(files)}

\* upload(..., upsert=true): the object of that name gets the content
upsert(files, name, content, t) ==
    [i \in 1..Len(files) |->
        IF files[i].name = name
        THEN [name |-> name, updated_at |-> t, content |-> content]
        ELSE files[i]] \o <<>>

\* what the first upload call may do: succeed, be refused for its MIME type
\* (then the upload is repeated without content-type), or fail otherwise
UploadOutcomes == {"ok", "mime type", "error"}

\* store_parsed_cv, called by POST /cv/extract with a fresh timestamp; the
\* listing may or may not carry an updated_at for the object
StoreParsedCv ==
    /\ Len(parsed_files) < MaxFiles
    /\ \E cv_data \in RecordPool, t \in Now(parsed_files) \cup {0} :
           parsed_files' =
               Append(parsed_files,
                      [name |-> Len(parsed_files) + 1, updated_at |-> t,
                       content |-> cv_data])
    /\ UNCHANGED <<upd_call, upd_result, ref_vars, ext_vars, pdf_vars, agent_vars, upload_vars, jobs_vars, race_vars, reload_vars>>

\* one PATCH /cv/update: update_cv and the update_parsed_cv it calls
UpdateCv ==
    /\ upd_call.fn = "none"
    /\ \E body \in BodyPool :
           LET update_dict == exclude_none(body)
           IN  /\ upd_call' = [fn |-> "update_cv", body |-> body,
                               timestamp |-> 0, files |-> parsed_files]
               /\ IF DOMAIN update_dict = {}
                  THEN /\ upd_result' = [status_code |-> 400]
                       /\ UNCHANGED parsed_files
                  ELSE IF parsed_files = <<>>
                  THEN /\ upd_result' = [status_code |-> 404]
                       /\ UNCHANGED parsed_files
                  ELSE LET cv_data == get_parsed_cv(parsed_files)
                           file_path == update_file_path(parsed_files)
                           saved == merge_updates(cv_data, update_dict)
                       IN  \E upload \in UploadOutcomes, t \in Now(parsed_files) :
                               IF upload = "error"
                               THEN /\ upd_result' = [status_code |-> 500]
                                    /\ UNCHANGED parsed_files
                               ELSE /\ parsed_files' =
                                           upsert(parsed_files, file_path, saved, t)
                                    /\ upd_result' =
                                           [status_code |-> 200,
                                            loaded |-> cv_data,
                                            saved |-> saved,
                                            storage_path |-> file_path]
    /\ UNCHANGED <<ref_vars, ext_vars, pdf_vars, agent_vars, upload_vars, jobs_vars, race_vars, reload_vars>>

\* update_parsed_cv called on its own, for a version (timestamp 0 is None:
\* the latest); status_code 0 as there is no response
UpdateParsedCv ==
    /\ upd_call.fn = "none"
    /\ \E body \in BodyPool, timestamp \in 0..(MaxFiles + 1) :
           LET updates == exclude_none(body)
               version == find_version(parsed_files, timestamp)
               found == IF timestamp # 0 THEN version # 0
                        ELSE parsed_files # <<>>
               cv_data == IF timestamp # 0 THEN parsed_files[version].content
                          ELSE get_parsed_cv(parsed_files)
               file_path == IF timestamp # 0 THEN parsed_files[version].name
                            ELSE update_file_path(parsed_files)
           IN  /\ upd_call' = [fn |-> "update_parsed_cv", body |-> body,
                               timestamp |-> timestamp, files |-> parsed_files]
               /\ IF ~found
                  THEN /\ upd_result' = [status_code |-> 0,
                                         raised |-> "ValueError"]
                       /\ UNCHANGED parsed_files
                  ELSE LET saved == merge_updates(cv_data, updates)
                       IN  \E upload \in UploadOutcomes, t \in Now(parsed_files) :
                               IF upload = "error"
                               THEN /\ upd_result' = [status_code |-> 0,
                                                      raised |-> "Exception"]
                                    /\ UNCHANGED parsed_files
                               ELSE /\ parsed_files' =
                                           upsert(parsed_files, file_path, saved, t)
                                    /\ upd_result' =
                                           [status_code |-> 0,
                                            raised |-> "nothing",
                                            loaded |-> cv_data,
                                            saved |-> saved,
                                            storage_path |-> file_path]
    /\ UNCHANGED <<ref_vars, ext_vars, pdf_vars, agent_vars, upload_vars, jobs_vars, race_vars, reload_vars>>

InitUpdate ==
    /\ csv_files = <<>>
    /\ hash_order = "asc"
    /\ RefIdle
    /\ ExtIdle
    /\ StoreIdle
    /\ PdfIdle
    /\ AgentIdle
    /\ UploadIdle
    /\ JobsIdle
    /\ RaceIdle
    /\ ReloadIdle

NextUpdate ==
    \/ StoreParsedCv
    \/ UpdateCv
    \/ UpdateParsedCv

SpecUpdate == InitUpdate /\ [][NextUpdate]_vars

\* PATCH /cv/update requests of one user handled side by side, next to
\* POST /cv/extract requests storing new records: every call on the storage
\* (list, download, upload) is a step of its own
Clients == {"a", "b"}

\* bodies that set different fields
RaceBodies == {request.headline, request.phone_skills}

no_request == [pc |-> "idle"]

\* the content of the object of that name
download(files, name) ==
    files[CHOOSE i \in 1..Len(files) : files[i].name = name].content

\* update_cv lines 188-198 and get_parsed_cv lines 132-172: the listing and
\* the choice of the object to read
ListLatest(c) ==
    /\ requests[c].pc = "idle"
    /\ \E body \in RaceBodies :
           requests' =
               [requests EXCEPT ![c] =
                   IF parsed_files = <<>>
                   THEN [pc |-> "done", status_code |-> 404, body |-> body]
                   ELSE [pc |-> "download", body |-> body,
                         read_path |-> latest_file(parsed_files).name]]
    /\ UNCHANGED <<ref_vars, ext_vars, store_vars, pdf_vars, agent_vars,
                   upload_vars, jobs_vars, reload_vars>>

\* get_parsed_cv lines 174-176
Download(c) ==
    /\ requests[c].pc = "download"
    /\ requests' =
           [requests EXCEPT ![c] =
               [pc |-> "list", body |-> @.body, read_path |-> @.read_path,
                cv_data |-> download(parsed_files, @.read_path)]]
    /\ UNCHANGED <<ref_vars, ext_vars, store_vars, pdf_vars, agent_vars,
                   upload_vars, jobs_vars, reload_vars>>

\* update_parsed_cv lines 213-244: the second listing and the choice of the
\* object to write
ListForPath(c) ==
    /\ requests[c].pc = "list"
    /\ requests' =
           [requests EXCEPT ![c] =
               [pc |-> "upload", body |-> @.body, read_path |-> @.read_path,
                cv_data |-> @.cv_data,
                file_path |-> update_file_path(parsed_files)]]
    /\ UNCHANGED <<ref_vars, ext_vars, store_vars, pdf_vars, agent_vars,
                   upload_vars, jobs_vars, reload_vars>>

\* update_parsed_cv lines 246-300 and update_cv lines 204-225
Upload(c) ==
    /\ requests[c].pc = "upload"
    /\ LET r == requests[c]
           saved == merge_updates(r.cv_data, exclude_none(r.body))
       IN  \E upload \in UploadOutcomes, t \in Now(parsed_files) :
               IF upload = "error"
               THEN /\ requests' =
                           [requests EXCEPT ![c] =
                               [pc |-> "done", status_code |-> 500,
                                body |-> r.body]]
                    /\ UNCHANGED parsed_files
               ELSE /\ parsed_files' =
                           upsert(parsed_files, r.file_path, saved, t)
                    /\ requests' =
                           [requests EXCEPT ![c] =
                               [pc |-> "done", status_code |-> 200,
                                body |-> r.body, read_path |-> r.read_path,
                                cv_data |-> r.cv_data,
                                file_path |-> r.file_path]]
    /\ UNCHANGED <<upd_call, upd_result, ref_vars, ext_vars, pdf_vars,
                   agent_vars, upload_vars, jobs_vars, reload_vars>>

InitRace ==
    /\ csv_files = <<>>
    /\ hash_order = "asc"
    /\ RefIdle
    /\ ExtIdle
    /\ StoreIdle
    /\ PdfIdle
    /\ AgentIdle
    /\ UploadIdle
    /\ JobsIdle
    /\ requests = [c \in Clients |-> no_request]
    /\ ReloadIdle

NextRace ==
    \/ StoreParsedCv
    \/ \E c \in Clients : ListLatest(c)
    \/ \E c \in Clients : Download(c)
    \/ \E c \in Clients : ListForPath(c)
    \/ \E c \in Clients : Upload(c)

SpecRace == InitRace /\ [][NextRace]_vars

-----------------------------------------------------------------------------
(* utils/pdf_extractor.py *)

MaxPages == 2    \* at most this many pages in a document

\* the exceptions a decoder raises, by what the handlers look at: the type
\* (KeyError/AttributeError or another) and what the message mentions
ErrorKinds ==
    {"KeyError_bbox", "KeyError", "PdfReadError_font", "PdfReadError_password",
     "PdfReadError"}

is_key_or_attribute_error(e) == e \in {"KeyError_bbox", "KeyError"}
mentions_bbox_or_font(e) == e \in {"KeyError_bbox", "PdfReadError_font"}

\* page.extract_text() / page.get_text() of one page under each decoder:
\* text, nothing but blanks, or an exception
Page(strict, lenient, fitz) ==
    [strict |-> strict, lenient |-> lenient, fitz |-> fitz]

FirstPages ==
    {Page(a, b, c) :
        a \in {"text", "blank", "KeyError_bbox", "KeyError", "PdfReadError"},
        b \in {"text", "blank", "PdfReadError"},
        c \in {"text", "blank", "error"}}

LaterPages ==
    {Page(a, b, c) :
        a \in {"text", "blank", "PdfReadError"},
        b \in {"text", "blank"},
        c \in {"text", "blank", "error"}}

RECURSIVE PageLists(_)
PageLists(n) ==
    IF n = 0 THEN {<<>>}
    ELSE IF n = 1 THEN {<<p>> : p \in FirstPages}
    ELSE {Append(q, p) : q \in PageLists(n - 1), p \in LaterPages}

Docs == UNION {PageLists(n) : n \in 0..MaxPages}

\* the documents: PdfReader(...) opens them or raises; reader.pages raises on
\* an encrypted one; a reader that opens in strict mode opens with strict=False
Pdfs ==
    {[open_strict |-> "ok", open_lenient |-> "ok", encrypted |-> FALSE,
      pages |-> ps] : ps \in Docs}
    \cup {[open_strict |-> "ok", open_lenient |-> "ok", encrypted |-> TRUE,
           pages |-> <<>>]}
    \cup {[open_strict |-> e, open_lenient |-> "ok", encrypted |-> FALSE,
           pages |-> ps] :
             e \in ErrorKinds,
             ps \in {q \in Docs : \A i \in 1..Len(q) :
                                     /\ q[i].strict = "PdfReadError"
                                     /\ q[i].fitz = "blank"}}
    \cup {[open_strict |-> e, open_lenient |-> "PdfReadError",
           encrypted |-> FALSE, pages |-> <<>>] : e \in ErrorKinds}

\* the text of page i as the decoder gave it
PageText(i, decoder) == [page |-> i, by |-> decoder]

\* the loop of lines 71-92 from page i on, with the reader of that mode
RECURSIVE page_loop(_, _, _, _)
page_loop(pages, mode, i, acc) ==
    IF i > Len(pages) THEN acc
    ELSE page_loop(pages, mode, i + 1,
             IF pages[i][mode] = "text"
             THEN [acc EXCEPT !.texts = Append(@, PageText(i, mode))]
             ELSE IF i = 1
             THEN [acc EXCEPT !.first_page_failed = TRUE]
             ELSE acc)

\* lines 112-121: the remaining pages, read again with PyMuPDF
RECURSIVE pymupdf_remaining(_, _, _)
pymupdf_remaining(pages, i, ts) ==
    IF i > Len(pages) THEN ts
    ELSE pymupdf_remaining(pages, i + 1,
             IF pages[i].fitz = "text"
             THEN IF i <= Len(ts)
                  THEN [ts EXCEPT ![i] = PageText(i, "fitz")]
                  ELSE Append(ts, PageText(i, "fitz"))
             ELSE ts)

\* no fallback at all
pymupdf_skipped(doc, ts) == ts

\* lines 97-124: texts after the PyMuPDF fallback
pymupdf_fallback(doc, ts) ==
    IF doc.fitz_open # "ok" \/ Len(doc.pages) = 0 THEN ts
    ELSE IF doc.pages[1].fitz # "text" THEN ts
    ELSE pymupdf_remaining(doc.pages, 2,
             IF ts # <<>>
             THEN [ts EXCEPT ![1] = PageText(1, "fitz")]
             ELSE <<PageText(1, "fitz")>>)

ReturnsText(ts) == [outcome |-> "returned", texts |-> ts]
RaisesError(e, m) == [outcome |-> "raised", exception |-> e, message |-> m]

\* line 41
OpenReader ==
    /\ pdf_pc = "open"
    /\ IF pdf.open_strict = "ok"
       THEN /\ pdf_pc' = "test_first_page"
            /\ UNCHANGED pdf_error
       ELSE /\ pdf_pc' = "except"
            /\ pdf_error' = pdf.open_strict
    /\ UNCHANGED <<pdf, PYMUPDF_AVAILABLE, use_strict_false, texts,
                   first_page_failed, pdf_result, ref_vars, ext_vars,
                   store_vars, agent_vars, upload_vars, jobs_vars, race_vars, reload_vars>>

\* a first-page test that never finds text
first_page_test_no_text(doc) ==
    IF doc.encrypted THEN "PdfReadError"
    ELSE IF doc.pages = <<>> THEN "IndexError"
    ELSE IF doc.pages[1].strict = "text" THEN "blank"
    ELSE doc.pages[1].strict

\* what reader.pages[0].extract_text() does on the strict reader
first_page_test(doc) ==
    IF doc.encrypted THEN "PdfReadError"
    ELSE IF doc.pages = <<>> THEN "IndexError"
    ELSE doc.pages[1].strict

\* lines 45-67
TestFirstPage ==
    /\ pdf_pc = "test_first_page"
    /\ LET test == first_page_test(pdf)
           strict_false ==
               IF test = "text" THEN FALSE
               ELSE IF test = "blank" THEN TRUE
               ELSE IF is_key_or_attribute_error(test)
               THEN mentions_bbox_or_font(test)
               ELSE TRUE
       IN  /\ use_strict_false' = strict_false
           /\ IF strict_false /\ pdf.open_lenient # "ok"
              THEN /\ pdf_pc' = "except"
                   /\ pdf_error' = pdf.open_lenient
              ELSE /\ pdf_pc' = "extract_pages"
                   /\ UNCHANGED pdf_error
    /\ UNCHANGED <<pdf, PYMUPDF_AVAILABLE, texts, first_page_failed,
                   pdf_result, ref_vars, ext_vars, store_vars, agent_vars, upload_vars, jobs_vars, race_vars, reload_vars>>

\* lines 69-92
ExtractPages ==
    /\ pdf_pc = "extract_pages"
    /\ IF pdf.encrypted
       THEN /\ pdf_pc' = "except"
            /\ pdf_error' = "PdfReadError"
            /\ UNCHANGED <<texts, first_page_failed>>
       ELSE LET mode == IF use_strict_false THEN "lenient" ELSE "strict"
                end == page_loop(pdf.pages, mode, 1,
                                 [texts |-> <<>>, first_page_failed |-> FALSE])
            IN  /\ texts' = end.texts
                /\ first_page_failed' = end.first_page_failed
                /\ pdf_pc' = "fallback"
                /\ UNCHANGED pdf_error
    /\ UNCHANGED <<pdf, PYMUPDF_AVAILABLE, use_strict_false, pdf_result,
                   ref_vars, ext_vars, store_vars, agent_vars, upload_vars, jobs_vars, race_vars, reload_vars>>

\* lines 95-129
PyMuPDFFallback ==
    /\ pdf_pc = "fallback"
    /\ texts' = IF first_page_failed /\ PYMUPDF_AVAILABLE
                THEN pymupdf_fallback(pdf, texts)
                ELSE texts
    /\ pdf_pc' = "return"
    /\ UNCHANGED <<pdf, PYMUPDF_AVAILABLE, use_strict_false,
                   first_page_failed, pdf_error, pdf_result, ref_vars,
                   ext_vars, store_vars, agent_vars, upload_vars, jobs_vars, race_vars, reload_vars>>

\* lines 131-143
ReturnText ==
    /\ pdf_pc = "return"
    /\ pdf_result' = IF texts # <<>>
                     THEN ReturnsText(texts)
                     ELSE RaisesError("ValueError", "no text")
    /\ pdf_pc' = "done"
    /\ UNCHANGED <<pdf, PYMUPDF_AVAILABLE, use_strict_false, texts,
                   first_page_failed, pdf_error, ref_vars, ext_vars,
                   store_vars, agent_vars, upload_vars, jobs_vars, race_vars, reload_vars>>

\* lines 144-186, the first "except Exception" clause; the second one (lines
\* 187-202) belongs to the same try statement and is never entered
HandleException ==
    /\ pdf_pc = "except"
    /\ pdf_result' =
           IF mentions_bbox_or_font(pdf_error)
              \/ is_key_or_attribute_error(pdf_error)
           THEN IF pdf.open_lenient # "ok" \/ pdf.encrypted
                THEN RaisesError("ValueError", "formatting issues")
                ELSE LET end == page_loop(pdf.pages, "lenient", 1,
                                    [texts |-> <<>>,
                                     first_page_failed |-> FALSE])
                     IN  IF end.texts # <<>>
                         THEN ReturnsText(end.texts)
                         ELSE RaisesError("ValueError", "formatting issues")
           ELSE RaisesError(pdf_error, "raw")
    /\ pdf_pc' = "done"
    /\ UNCHANGED <<pdf, PYMUPDF_AVAILABLE, use_strict_false, texts,
                   first_page_failed, pdf_error, ref_vars, ext_vars,
                   store_vars, agent_vars, upload_vars, jobs_vars, race_vars, reload_vars>>

\* one call of extract_text_from_pdf, on any document; fitz.open is looked at
\* only where PyMuPDF is installed
InitPdf ==
    /\ csv_files = <<>>
    /\ hash_order = "asc"
    /\ RefIdle
    /\ ExtIdle
    /\ StoreIdle
    /\ \E doc \in Pdfs, fitz_open \in {"ok", "error"} :
           pdf = [open_strict |-> doc.open_strict,
                  open_lenient |-> doc.open_lenient,
                  encrypted |-> doc.encrypted,
                  pages |-> doc.pages,
                  fitz_open |-> fitz_open]
    /\ PYMUPDF_AVAILABLE \in BOOLEAN
    /\ ~PYMUPDF_AVAILABLE => pdf.fitz_open = "ok"
    /\ pdf_pc = "open"
    /\ use_strict_false = FALSE
    /\ texts = <<>>
    /\ first_page_failed = FALSE
    /\ pdf_error = "none"
    /\ pdf_result = [outcome |-> "none"]
    /\ AgentIdle
    /\ UploadIdle
    /\ JobsIdle
    /\ RaceIdle
    /\ ReloadIdle

NextPdf ==
    \/ OpenReader
    \/ TestFirstPage
    \/ ExtractPages
    \/ PyMuPDFFallback
    \/ ReturnText
    \/ HandleException

SpecPdf == InitPdf /\ [][NextPdf]_vars

-----------------------------------------------------------------------------
(* agents/cv_extraction: the five field agents, and the sections of the
   record that extract_cv_from_pdf builds from what they return *)

\* Python's truth value of it
truthy(v) ==
    CASE v.type = "null" -> FALSE
      [] v.type = "int" -> v.value # 0
      [] OTHER -> Len(v.value) > 0

\* str.split(): the runs of non-whitespace characters
RECURSIVE split_whitespace(_)
split_whitespace(s) ==
    LET t == lstrip(s)
        word_end == CHOOSE i \in 1..Len(t) :
                        /\ \A k \in 1..i : t[k] \notin Whitespace
                        /\ i = Len(t) \/ t[i + 1] \in Whitespace
    IN  IF t = <<>> THEN <<>>
        ELSE <<SubSeq(t, 1, word_end)>>
                 \o split_whitespace(SubSeq(t, word_end + 1, Len(t)))

\* " ".join(words)
RECURSIVE join_space(_)
join_space(words) ==
    IF words = <<>> THEN <<>>
    ELSE IF Len(words) = 1 THEN words[1]
    ELSE words[1] \o <<" ">> \o join_space(Tail(words))

clean_headline(v) ==
    IF ~truthy(v) THEN Json("null", <<>>)
    ELSE Json("str", join_space(split_whitespace(v.value)))

\* the comprehension shared, letter for letter, by the four list validators
\* is written out in each of them
clean_responsibilities(v) ==
    IF ~truthy(v) THEN Json("list", <<>>)
    ELSE LET kept == SelectSeq(v.value,
                         LAMBDA r : r.type = "str" /\ strip(r.value) # <<>>)
         IN  Json("list", seq_of([k \in 1..Len(kept) |->
                                     Json("str", strip(kept[k].value))]))

\* the validator as it would be if it tested the entry, not its trimmed form
clean_lists_keeping_blanks(v) ==
    IF ~truthy(v) THEN Json("list", <<>>)
    ELSE LET kept == SelectSeq(v.value,
                         LAMBDA i : i.type = "str" /\ i.value # <<>>)
         IN  Json("list", seq_of([k \in 1..Len(kept) |->
                                     Json("str", strip(kept[k].value))]))

clean_lists(v) ==
    IF ~truthy(v) THEN Json("list", <<>>)
    ELSE LET kept == SelectSeq(v.value,
                         LAMBDA i : i.type = "str" /\ strip(i.value) # <<>>)
         IN  Json("list", seq_of([k \in 1..Len(kept) |->
                                     Json("str", strip(kept[k].value))]))

clean_projects(v) ==
    IF ~truthy(v) THEN Json("list", <<>>)
    ELSE LET kept == SelectSeq(v.value,
                         LAMBDA p : p.type = "str" /\ strip(p.value) # <<>>)
         IN  Json("list", seq_of([k \in 1..Len(kept) |->
                                     Json("str", strip(kept[k].value))]))

clean_certifications(v) ==
    IF ~truthy(v) THEN Json("list", <<>>)
    ELSE LET kept == SelectSeq(v.value,
                         LAMBDA c : c.type = "str" /\ strip(c.value) # <<>>)
         IN  Json("list", seq_of([k \in 1..Len(kept) |->
                                     Json("str", strip(kept[k].value))]))

\* the models the output parsers build; of the fields without a validator
\* only role is kept
IdentityOutput(c) == [c EXCEPT !.headline = clean_headline(@)]
ExperienceItem(c) ==
    [c EXCEPT !.responsibilities = clean_responsibilities(@)]
EducationItem(c) ==
    [c EXCEPT !.certifications = clean_lists(@),
              !.academic_projects = clean_lists(@)]
\* a missing field is required, no validator runs for it
ProjectsOutput(c) ==
    IF "projects" \notin DOMAIN c THEN [error |-> "ValidationError"]
    ELSE [projects |-> clean_projects(c.projects)]
CertificationsOutput(c) ==
    [certifications |-> clean_certifications(c.certifications)]

Agents ==
    <<"identity", "experience", "education", "projects", "certifications">>

\* chain.invoke's parse of a completion c of the given agent
parse(agent, c) ==
    CASE agent = "identity" -> IdentityOutput(c)
      [] agent = "experience" ->
             [experiences |-> seq_of([k \in 1..Len(c.experiences) |->
                                         ExperienceItem(c.experiences[k])])]
      [] agent = "education" ->
             [education |-> seq_of([k \in 1..Len(c.education) |->
                                       EducationItem(c.education[k])])]
      [] agent = "projects" -> ProjectsOutput(c)
      [] agent = "certifications" -> CertificationsOutput(c)

\* what a list field of a completion may hold: null, or up to MaxItems
\* entries that are null, a number, blank, a padded word or, of two words,
\* the other one bare
MaxItems == 2


Entries(words) ==
    {Json("null", <<>>), Json("int", 7), Json("str", <<" ">>)}
        \cup {Json("str", <<" ">> \o w \o <<"\t">>) : w \in words}
        \cup (IF Cardinality(words) > 1
              THEN {Json("str", CHOOSE w \in words : w # word.thesis)}
              ELSE {})

ListValues(words) ==
    {Json("null", <<>>)}
        \cup {Json("list", q) : q \in SeqsUpTo(Entries(words), MaxItems)}

\* the completions each agent's chain may have to parse
Completions(agent) ==
    CASE agent = "identity" ->
             {[full_name |-> Json("str", word.app), headline |-> h] :
                 h \in {Json("null", <<>>), Json("str", <<>>),
                        Json("str", <<" ", "\t">>),
                        Json("str", word.headline)}}
      [] agent = "experience" ->
             {[experiences |-> <<>>]}
                 \cup {[experiences |->
                           <<[role |-> Json("str", word.engineer),
                              responsibilities |-> v]>>] :
                          v \in ListValues({word.led})}
      [] agent = "education" ->
             {[education |-> <<>>]}
                 \cup {[education |->
                           <<[certifications |-> v, academic_projects |-> w]>>] :
                          v \in ListValues({word.aws}),
                          w \in ListValues({word.thesis})}
      [] agent = "projects" ->
             {[projects |-> v] : v \in ListValues({word.thesis, word.app})}
                 \cup {[project_list |-> Json("list", <<>>)]}
      [] agent = "certifications" ->
             {[certifications |-> v] : v \in ListValues({word.scrum})}

\* model_dump(): dicts of plain lists and strings, None for null
dump_value(v) ==
    CASE v.type = "null" -> NoneVal
      [] v.type = "list" ->
             seq_of([k \in 1..Len(v.value) |-> v.value[k].value])
      [] OTHER -> v.value

model_dump(m) == [f \in DOMAIN m |-> dump_value(m[f])]

\* lines 45-49: agent.invoke(cv_text), one agent after the other. The chain is
\* prompt | llm | output_parser: the model completes (or the request fails),
\* the parser builds the output model (or rejects the completion), and the
\* call returns
Complete(agent) ==
    /\ agent_pc = agent
    /\ agent_in.agent = "none"
    /\ \/ \E c \in Completions(agent) :
              /\ agent_in' = [agent |-> agent, completion |-> c]
              /\ UNCHANGED agent_pc
       \/ /\ agent_pc' = "raised"
          /\ UNCHANGED agent_in
    /\ UNCHANGED <<agent_out, cv_record, ref_vars, ext_vars, store_vars,
                   pdf_vars, upload_vars, jobs_vars, race_vars, reload_vars>>

Parse(agent) ==
    /\ agent_pc = agent
    /\ agent_in.agent = agent
    /\ LET parsed == parse(agent, agent_in.completion)
       IN  IF "error" \in DOMAIN parsed
           THEN /\ agent_pc' = "raised"
                /\ UNCHANGED agent_out
           ELSE /\ agent_pc' = "return"
                /\ agent_out' = [agent_out EXCEPT ![agent] = parsed]
    /\ UNCHANGED <<agent_in, cv_record, ref_vars, ext_vars, store_vars,
                   pdf_vars, upload_vars, jobs_vars, race_vars, reload_vars>>

Return ==
    /\ agent_pc = "return"
    /\ agent_pc' = IF agent_in.agent = "certifications" THEN "output"
                   ELSE Agents[1 + CHOOSE k \in 1..Len(Agents) :
                                       Agents[k] = agent_in.agent]
    /\ agent_in' = [agent |-> "none"]
    /\ UNCHANGED <<agent_out, cv_record, ref_vars, ext_vars, store_vars,
                   pdf_vars, upload_vars, jobs_vars, race_vars, reload_vars>>

\* lines 51 and 95-107: the sections of the output
BuildOutput ==
    /\ agent_pc = "output"
    /\ cv_record' =
           [identity |-> model_dump(agent_out.identity),
            experience |->
                seq_of([k \in 1..Len(agent_out.experience.experiences) |->
                           model_dump(agent_out.experience.experiences[k])]),
            education |->
                seq_of([k \in 1..Len(agent_out.education.education) |->
                           model_dump(agent_out.education.education[k])]),
            projects |-> dump_value(agent_out.projects.projects),
            certifications |->
                dump_value(agent_out.certifications.certifications)]
    /\ agent_pc' = "done"
    /\ UNCHANGED <<agent_in, agent_out, ref_vars, ext_vars, store_vars, pdf_vars, upload_vars, jobs_vars, race_vars, reload_vars>>

\* the agents of one extract_cv_from_pdf call, for any completions
InitAgents ==
    /\ csv_files = <<>>
    /\ hash_order = "asc"
    /\ RefIdle
    /\ ExtIdle
    /\ StoreIdle
    /\ PdfIdle
    /\ agent_pc = "identity"
    /\ agent_in = [agent |-> "none"]
    /\ agent_out =
           [identity |-> [headline |-> Json("null", <<>>)],
            experience |-> [experiences |-> <<>>],
            education |-> [education |-> <<>>],
            projects |-> [projects |-> Json("list", <<>>)],
            certifications |-> [certifications |-> Json("list", <<>>)]]
    /\ cv_record = [identity |-> NoneVal]
    /\ UploadIdle
    /\ JobsIdle
    /\ RaceIdle
    /\ ReloadIdle

NextAgents ==
    \/ \E agent \in Range(Agents) : Complete(agent)
    \/ \E agent \in Range(Agents) : Parse(agent)
    \/ Return
    \/ BuildOutput

SpecAgents == InitAgents /\ [][NextAgents]_vars

-----------------------------------------------------------------------------
(* api/cv.py: POST /cv/extract *)

max_size == 10 * 1024 * 1024

allowed_types ==
    {"application/pdf", "application/msword",
     "application/vnd.openxmlformats-officedocument.wordprocessingml.document"}

\* Path(name).suffix: from the last dot on, when a dot follows the first
\* character of the name and does not end it
suffix(name) ==
    LET dots == {i \in 2..(Len(name) - 1) : name[i] = "."}
    IN  IF dots = {} THEN <<>>
        ELSE SubSeq(name, CHOOSE i \in dots : \A j \in dots : j <= i, Len(name))

allowed_extensions ==
    {<<".", "p", "d", "f">>, <<".", "d", "o", "c">>, <<".", "d", "o", "c", "x">>}

\* the uploads: file.filename, file.content_type ("" when the part declares
\* none) and the number of bytes file.read() gives
Uploads ==
    [filename : {<<"c", "v", ".", "p", "d", "f">>, <<"c", "v", ".", "P", "D", "F">>,
                 <<"c", "v", ".", "d", "o", "c">>,
                 <<"c", "v", ".", "d", "o", "c", "x">>,
                 <<"c", "v", ".", "p", "d", "f", ".", "t", "x", "t">>,
                 <<"c", "v">>, <<".", "p", "d", "f">>, <<>>},
     content_type : allowed_types \cup {"", "text/plain", "image/png"},
     size : {0, max_size, max_size + 1}]

\* lines 39-88: the checks made before anything is extracted; the status of
\* the HTTPException raised, 0 when none is
validate_upload(file) ==
    LET file_ext == lower(suffix(file.filename))
    IN  IF /\ file.content_type # ""
           /\ file.content_type \notin allowed_types
           /\ file_ext \notin allowed_extensions
        THEN 400
        ELSE IF file_ext \notin allowed_extensions THEN 400
        ELSE IF file.size > max_size THEN 400
        ELSE IF file_ext # <<".", "p", "d", "f">> THEN 400
        ELSE 0

ValidateUpload ==
    /\ upload_pc = "validate"
    /\ LET status == validate_upload(upload_file)
       IN  IF status # 0
           THEN /\ upload_pc' = "done"
                /\ upload_status' = status
           ELSE /\ upload_pc' = "extract"
                /\ UNCHANGED upload_status
    /\ UNCHANGED <<upload_file, upload_done, ref_vars, ext_vars, store_vars,
                   pdf_vars, agent_vars, jobs_vars, race_vars, reload_vars>>

\* line 96 and the handlers of lines 127-169: extract_cv_from_pdf returns, or
\* raises a ValueError, an error that names the pdf, or another one
ExtractCvData ==
    /\ upload_pc = "extract"
    /\ upload_done' = upload_done \cup {"extract_cv_from_pdf"}
    /\ \E raised \in {"nothing", "ValueError", "pdf", "other"} :
           IF raised = "nothing"
           THEN /\ upload_pc' = "store"
                /\ UNCHANGED upload_status
           ELSE /\ upload_pc' = "done"
                /\ upload_status' = IF raised = "other" THEN 500 ELSE 400
    /\ UNCHANGED <<upload_file, ref_vars, ext_vars, store_vars, pdf_vars,
                   agent_vars, jobs_vars, race_vars, reload_vars>>

\* lines 99-125 and the handlers of lines 143-169: store_raw_pdf, then
\* store_parsed_cv; either upload may fail, for a missing bucket or otherwise
StoreFiles ==
    /\ upload_pc = "store"
    /\ \E raw \in {"ok", "bucket not found", "error"},
          parsed \in {"ok", "bucket not found", "error"} :
           /\ upload_done' =
                  upload_done
                      \cup (IF raw = "ok" THEN {"store_raw_pdf"} ELSE {})
                      \cup (IF raw = "ok" /\ parsed = "ok"
                            THEN {"store_parsed_cv"} ELSE {})
           /\ upload_status' =
                  LET failed == IF raw # "ok" THEN raw ELSE parsed
                  IN  IF failed = "ok" THEN 200
                      ELSE IF failed = "bucket not found" THEN 404
                      ELSE 500
    /\ upload_pc' = "done"
    /\ UNCHANGED <<upload_file, ref_vars, ext_vars, store_vars, pdf_vars,
                   agent_vars, jobs_vars, race_vars, reload_vars>>

\* one POST /cv/extract, for any upload
InitUpload ==
    /\ csv_files = <<>>
    /\ hash_order = "asc"
    /\ RefIdle
    /\ ExtIdle
    /\ StoreIdle
    /\ PdfIdle
    /\ AgentIdle
    /\ upload_file \in Uploads
    /\ upload_pc = "validate"
    /\ upload_done = {}
    /\ upload_status = 0
    /\ JobsIdle
    /\ RaceIdle
    /\ ReloadIdle

NextUpload ==
    \/ ValidateUpload
    \/ ExtractCvData
    \/ StoreFiles

SpecUpload == InitUpload /\ [][NextUpload]_vars

-----------------------------------------------------------------------------
(* api/jobs.py: the recruiter-side endpoints *)

MaxJobs == 2            \* at most this many jobs are ever created
MaxApplications == 1    \* at most this many applications are ever made

\* recruiter["id"] of the authenticated recruiters
Recruiters == {"r1", "r2"}

\* JobUpdate's validator of status: a blank string is no value
empty_string_to_none(v) == IF v = <<>> THEN NoneVal ELSE v

\* a request body as JobCreate keeps it: job_title is required
JobCreate(job_title, status) == [job_title |-> job_title, status |-> status]

\* a request body as JobUpdate keeps it
JobUpdate(job_title, status) ==
    [job_title |-> job_title, status |-> empty_string_to_none(status)]

\* the bodies sent, by their fields job_title and status
JobPayloads ==
    [job_title : {NoneVal, <<"t1">>},
     status : {NoneVal, <<>>, <<"closed">>}]

\* .eq("id", job_id) without the recruiter filter
select_by_id(rows, job_id, recruiter_id) == {r \in rows : r.id = job_id}

\* .eq("id", job_id).eq("recruiter_profile_id", recruiter["id"])
select_owned(rows, job_id, recruiter_id) ==
    {r \in rows : r.id = job_id /\ r.recruiter_profile_id = recruiter_id}

Response(status_code, data) == [status_code |-> status_code, data |-> data]

\* the rows of the two tables before the request now answered
Tables == [job_position |-> db.job_position, applications |-> db.applications]

\* lines 31-72; a JobCreate has a job_title; the insert may be refused
create_job ==
    /\ db.job_seq < MaxJobs
    /\ \E recruiter \in Recruiters,
          sent \in {p \in JobPayloads : p.job_title # NoneVal} :
           LET payload == JobCreate(sent.job_title, sent.status)
               dumped == exclude_none(payload)
               job_data ==
                   [id |-> db.job_seq + 1,
                    recruiter_profile_id |-> recruiter,
                    job_title |-> dumped.job_title,
                    status |-> IF "status" \notin DOMAIN dumped
                                  \/ dumped.status = <<>>
                               THEN <<"open">> ELSE dumped.status]
           IN  /\ job_call' = [fn |-> "create_job", recruiter |-> recruiter,
                               job_id |-> 0, before |-> Tables]
               /\ \/ /\ db' = [db EXCEPT !.job_position = @ \cup {job_data},
                                         !.job_seq = @ + 1]
                     /\ job_response' = Response(201, {job_data})
                  \/ /\ job_response' = Response(400, {})
                     /\ UNCHANGED db
    /\ UNCHANGED <<ref_vars, ext_vars, store_vars, pdf_vars, agent_vars,
                   upload_vars, race_vars, reload_vars>>

\* lines 94-119
get_job ==
    /\ \E recruiter \in Recruiters, job_id \in 1..MaxJobs :
           LET data == select_owned(db.job_position, job_id, recruiter)
           IN  /\ job_call' = [fn |-> "get_job", recruiter |-> recruiter,
                               job_id |-> job_id, before |-> Tables]
               /\ job_response' = IF data = {} THEN Response(404, {})
                                  ELSE Response(200, data)
    /\ UNCHANGED <<db, ref_vars, ext_vars, store_vars, pdf_vars, agent_vars,
                   upload_vars, race_vars, reload_vars>>

\* the row with the fields of update_data set
updated(row, update_data) ==
    [f \in DOMAIN row |->
        IF f \in DOMAIN update_data THEN update_data[f] ELSE row[f]]

\* lines 122-185
update_job ==
    /\ \E recruiter \in Recruiters, job_id \in 1..MaxJobs,
          sent \in JobPayloads :
           LET check == select_owned(db.job_position, job_id, recruiter)
               payload == JobUpdate(sent.job_title, sent.status)
               update_data == exclude_none(payload)
               rows == select_owned(db.job_position, job_id, recruiter)
               data == {updated(r, update_data) : r \in rows}
           IN  /\ job_call' = [fn |-> "update_job", recruiter |-> recruiter,
                               job_id |-> job_id, before |-> Tables]
               /\ IF check = {}
                  THEN /\ job_response' = Response(404, {})
                       /\ UNCHANGED db
                  ELSE IF DOMAIN update_data = {}
                  THEN /\ job_response' = Response(400, {})
                       /\ UNCHANGED db
                  ELSE \/ /\ db' = [db EXCEPT !.job_position =
                                                  (@ \ rows) \cup data]
                          /\ job_response' = IF data = {} THEN Response(500, {})
                                             ELSE Response(200, data)
                       \/ /\ job_response' = Response(400, {})
                          /\ UNCHANGED db
    /\ UNCHANGED <<ref_vars, ext_vars, store_vars, pdf_vars, agent_vars,
                   upload_vars, race_vars, reload_vars>>

\* lines 188-233; either delete may fail
delete_job ==
    /\ \E recruiter \in Recruiters, job_id \in 1..MaxJobs :
           LET check == select_owned(db.job_position, job_id, recruiter)
               without_applications ==
                   [db EXCEPT !.applications =
                                  {a \in @ : a.job_position_id # job_id}]
           IN  /\ job_call' = [fn |-> "delete_job", recruiter |-> recruiter,
                               job_id |-> job_id, before |-> Tables]
               /\ IF check = {}
                  THEN /\ job_response' = Response(404, {})
                       /\ UNCHANGED db
                  ELSE \/ /\ db' = [without_applications EXCEPT
                                       !.job_position =
                                           @ \ select_owned(@, job_id, recruiter)]
                          /\ job_response' = Response(200, {})
                       \/ /\ db' = without_applications
                          /\ job_response' = Response(400, {})
                       \/ /\ job_response' = Response(400, {})
                          /\ UNCHANGED db
    /\ UNCHANGED <<ref_vars, ext_vars, store_vars, pdf_vars, agent_vars,
                   upload_vars, race_vars, reload_vars>>

\* a row of the applications table, inserted by a candidate for a listed job
InsertApplication ==
    /\ db.application_seq < MaxApplications
    /\ \E job \in db.job_position :
           db' = [db EXCEPT !.applications =
                                @ \cup {[id |-> db.application_seq + 1,
                                         job_position_id |-> job.id]},
                            !.application_seq = @ + 1]
    /\ job_call' = [fn |-> "none"]
    /\ job_response' = Response(0, {})
    /\ UNCHANGED <<ref_vars, ext_vars, store_vars, pdf_vars, agent_vars,
                   upload_vars, race_vars, reload_vars>>

\* the recruiters' requests, one after the other, on tables that start empty
InitJobs ==
    /\ csv_files = <<>>
    /\ hash_order = "asc"
    /\ RefIdle
    /\ ExtIdle
    /\ StoreIdle
    /\ PdfIdle
    /\ AgentIdle
    /\ UploadIdle
    /\ JobsIdle
    /\ RaceIdle
    /\ ReloadIdle

NextJobs ==
    \/ create_job
    \/ get_job
    \/ update_job
    \/ delete_job
    \/ InsertApplication

SpecJobs == InitJobs /\ [][NextJobs]_vars

-----------------------------------------------------------------------------
(* Properties of extract_cv_from_pdf, under Spec *)

Returned == pc = "done"

related_roles == output.skills_analysis.related_roles
job_related_skills == output.skills_analysis.job_related_skills
returned_explicit_skills == output.skills_analysis.explicit_skills

\* the reference skills that occur, whatever their case, in the CV text
SkillsInText ==
    LET text_lower == lower(cv_text)
    IN  {sk \in get_all_skills(csv_files) : contains(text_lower, sk)}

\* the union of the skills of the matched titles
SkillsOfMatchedRoles ==
    UNION {get_skills_for_job(csv_files, t) : t \in Range(related_roles)}

StrictlyAscending(xs) ==
    \A i \in 1..(Len(xs) - 1) : str_less(xs[i], xs[i + 1])

\* C1: a returned record has at most 20 job-related skills and at most 20
\* explicit skills, whatever the reference data and the CV
C1_SkillCap ==
    Returned =>
        /\ Len(job_related_skills) <= MAX_SKILLS
        /\ Len(returned_explicit_skills) <= MAX_SKILLS

\* a record returned with both lists full, cut down from more than 20 skills
C1_Witness ==
    /\ Returned
    /\ Len(job_related_skills) = MAX_SKILLS
    /\ Len(returned_explicit_skills) = MAX_SKILLS
    /\ Cardinality(SkillsOfMatchedRoles) > MAX_SKILLS
    /\ Cardinality(SkillsInText) > MAX_SKILLS

\* C2: when a role matched, job_related_skills is the first min(20, n)
\* elements of the ascending sort of the union of the matched titles' skills:
\* strictly ascending, drawn from the union, of that length, and every skill
\* left out sorts after every skill kept
C2_JobSkillsSortedPrefix ==
    (Returned /\ related_roles # <<>>) =>
        /\ Len(job_related_skills) =
               Min(MAX_SKILLS, Cardinality(SkillsOfMatchedRoles))
        /\ Range(job_related_skills) \subseteq SkillsOfMatchedRoles
        /\ StrictlyAscending(job_related_skills)
        /\ \A left \in SkillsOfMatchedRoles \ Range(job_related_skills) :
               \A i \in 1..Len(job_related_skills) :
                   str_less(job_related_skills[i], left)

\* three roles matched and the union of their skills was cut to 20
C2_Witness ==
    /\ Returned
    /\ Len(related_roles) >= 3
    /\ Cardinality(SkillsOfMatchedRoles) > MAX_SKILLS
    /\ Len(job_related_skills) = MAX_SKILLS
    /\ \E t \in Range(related_roles) :
           ~(get_skills_for_job(csv_files, related_roles[1])
                 \subseteq get_skills_for_job(csv_files, t))

\* C3: with no matched role, both skill lists of the returned record are empty
C3_NoRoleNoSkills ==
    (Returned /\ related_roles = <<>>) =>
        /\ job_related_skills = <<>>
        /\ returned_explicit_skills = <<>>

\* a CV with roles, none of them canonical, whose text names reference skills
C3_Witness ==
    /\ Returned
    /\ experience_roles_of(experiences) # <<>>
    /\ related_roles = <<>>
    /\ SkillsInText # {}

\* C4, as claimed: whenever a reference skill occurs in the text, the record
\* has explicit skills, matched role or not
C4_ExplicitSkillsAlwaysRecovered ==
    (Returned /\ load_error(csv_files) = "ok" /\ SkillsInText # {}) =>
        returned_explicit_skills # <<>>

\* C4, amended: explicit skills are recovered only when a role matched; then
\* the list holds min(20, n) distinct reference skills that occur in the text
\* (n = number of those), and with no matched role it is empty
C4_ExplicitSkillsWhenRoleMatched ==
    Returned =>
        IF related_roles # <<>>
        THEN /\ Range(returned_explicit_skills) \subseteq SkillsInText
             /\ Len(returned_explicit_skills) =
                    Min(MAX_SKILLS, Cardinality(SkillsInText))
             /\ Cardinality(Range(returned_explicit_skills)) =
                    Len(returned_explicit_skills)
        ELSE returned_explicit_skills = <<>>

\* a role matched and the text names a reference skill that is not a skill of
\* any matched title
C4_Witness ==
    /\ Returned
    /\ related_roles # <<>>
    /\ \E sk \in Range(returned_explicit_skills) : sk \notin SkillsOfMatchedRoles

-----------------------------------------------------------------------------
(* Properties of the reference store, under SpecRef *)

RefReturned(fn) == ref_call.fn = fn /\ ref_result.outcome = "returned"

\* the normalized titles of the rows on disk
TitlesOnDisk ==
    {strip(lower(csv_files[f].rows[r].job_title)) :
        <<f, r>> \in {p \in (1..Len(csv_files)) \X (1..3) :
                         p[2] <= Len(csv_files[p[1]].rows)}}

\* C5: filter_job_positions_in_csv returns a canonical title iff some input
\* position equals it once lower-cased and trimmed; "Senior Data Engineer"
\* does not match the title "data engineer", while "Data Engineer" in capitals
\* or between blanks does
C5_ExactMatchOnly ==
    RefReturned("filter_job_positions_in_csv") =>
        /\ Range(ref_result.value) =
               {t \in TitlesOnDisk :
                   \E i \in 1..Len(ref_call.arg) :
                       strip(lower(ref_call.arg[i])) = t}
        /\ (\A i \in 1..Len(ref_call.arg) :
                ref_call.arg[i] = word.Senior_Data_Engineer)
               => ref_result.value = <<>>
        /\ (word.data_engineer \in TitlesOnDisk
              /\ \E i \in 1..Len(ref_call.arg) :
                     ref_call.arg[i] \in {word.Data_Engineer,
                                          word.Data_Engineer_spaced})
               => word.data_engineer \in Range(ref_result.value)

\* "Senior Data Engineer" and "  Data Engineer\t" against a store holding the
\* title "data engineer": only the second matched
C5_Witness ==
    /\ RefReturned("filter_job_positions_in_csv")
    /\ ref_call.arg = <<word.Senior_Data_Engineer, word.Data_Engineer_spaced>>
    /\ word.data_engineer \in TitlesOnDisk
    /\ ref_result.value = <<word.data_engineer>>

\* the maximal comma-free pieces of a cell
Pieces(cell) ==
    {SubSeq(cell, p[1], p[2]) :
        p \in {q \in (1..(Len(cell) + 1)) \X (0..Len(cell)) :
                  /\ q[1] <= q[2] + 1
                  /\ q[1] = 1 \/ cell[q[1] - 1] = ","
                  /\ q[2] = Len(cell) \/ cell[q[2] + 1] = ","
                  /\ \A k \in q[1]..q[2] : cell[k] # ","}}

\* the rows on disk whose normalized title is that of the role
RowsOfRole(job_role) ==
    {csv_files[p[1]].rows[p[2]] :
        p \in {q \in (1..Len(csv_files)) \X (1..3) :
                  /\ q[2] <= Len(csv_files[q[1]].rows)
                  /\ strip(lower(csv_files[q[1]].rows[q[2]].job_title))
                         = strip(lower(job_role))}}

\* two sources with the rows ("Backend Engineer", "python, sql") and
\* ("Backend Engineer", "docker")
MergeScenario ==
    /\ Len(csv_files) = 2
    /\ Row(word.Backend_Engineer, word.python_sql) \in Range(csv_files[1].rows)
    /\ Row(word.Backend_Engineer, word.docker) \in Range(csv_files[2].rows)

-----------------------------------------------------------------------------
(* Properties of the partial update, under SpecUpdate *)

Updated == upd_result.status_code = 200

OtherSections ==
    {"metadata", "experience", "education", "projects", "certifications"}

Trimmed(s) ==
    LET inked == {i \in 1..Len(s) : s[i] \notin Whitespace}
    IN  IF inked = {} THEN <<>>
        ELSE SubSeq(s, CHOOSE i \in inked : \A j \in inked : i <= j,
                       CHOOSE i \in inked : \A j \in inked : j <= i)

\* the entries of v that are strings with something in them, trimmed, in
\* their order; the empty list when v is no list
ExpectedList(v) ==
    IF v.type # "list" THEN Json("list", <<>>)
    ELSE LET strings == {i \in 1..Len(v.value) :
                            /\ v.value[i].type = "str"
                            /\ Trimmed(v.value[i].value) # <<>>}
             nth(k) == CHOOSE i \in strings :
                           Cardinality({j \in strings : j <= i}) = k
         IN  Json("list", seq_of([k \in 1..Cardinality(strings) |->
                                     Json("str", Trimmed(v.value[nth(k)].value))]))

\* a list field of the completion just parsed (null when it is missing) with
\* the field of the model the parser built
ParsedLists ==
    LET c == agent_in.completion
        pair(given, got) == [given |-> given, got |-> got]
    IN  CASE agent_in.agent = "experience" ->
                 {pair(c.experiences[k].responsibilities,
                       agent_out.experience.experiences[k].responsibilities) :
                     k \in 1..Len(c.experiences)}
          [] agent_in.agent = "education" ->
                 {pair(c.education[k].certifications,
                       agent_out.education.education[k].certifications) :
                     k \in 1..Len(c.education)}
                 \cup {pair(c.education[k].academic_projects,
                            agent_out.education.education[k].academic_projects) :
                          k \in 1..Len(c.education)}
          [] agent_in.agent = "projects" ->
                 {pair(IF "projects" \in DOMAIN c THEN c.projects
                       ELSE Json("null", <<>>),
                       agent_out.projects.projects)}
          [] agent_in.agent = "certifications" ->
                 {pair(c.certifications, agent_out.certifications.certifications)}
          [] OTHER -> {}

\* the parser rejected the completion it was given
Rejected == agent_pc = "raised" /\ agent_in.agent # "none"

\* C26, as claimed: each list field of a parsed completion is validated to
\* its string entries with something in them, trimmed and in their order; a
\* list field that is null or missing gives the empty list, not a rejection
\* of the completion; a headline that is null stays null
C26_ListsCleanedOrEmpty ==
    /\ ~Rejected
    /\ agent_pc = "return" =>
           /\ \A x \in ParsedLists : x.got = ExpectedList(x.given)
           /\ (agent_in.agent = "identity"
               /\ agent_in.completion.headline.type = "null") =>
                  agent_out.identity.headline = Json("null", <<>>)

\* the identity parser has returned its model
IdentityValidated == agent_pc = "return" /\ agent_in.agent = "identity"

\* s has something in it, starts and ends with ink, and its only whitespace
\* is single spaces between words
SingleSpaced(s) ==
    /\ s # <<>>
    /\ s[1] \notin Whitespace
    /\ s[Len(s)] \notin Whitespace
    /\ \A i \in 1..Len(s) : s[i] \in Whitespace => s[i] = " "
    /\ \A i \in 1..(Len(s) - 1) :
           ~(s[i] \in Whitespace /\ s[i + 1] \in Whitespace)

\* C27, as claimed: the validated headline is None, or a string with
\* something in it, no whitespace at its ends and single spaces for its
\* whitespace runs; an empty or whitespace-only headline becomes None
C27_HeadlineAbsentOrSingleSpaced ==
    IdentityValidated =>
        LET headline == agent_out.identity.headline
        IN  \/ headline = Json("null", <<>>)
            \/ /\ headline.type = "str"
               /\ SingleSpaced(headline.value)

-----------------------------------------------------------------------------
(* Properties of PATCH /cv/update requests side by side, under SpecRace *)

\* the request has chosen the object it writes, or has written it
PathChosen(c) ==
    \/ requests[c].pc = "upload"
    \/ requests[c].pc = "done" /\ requests[c].status_code = 200

\* C28, as claimed: the object update_parsed_cv writes is the object it read
\* the record from, whatever the listing (ties of the sort key included) and
\* whatever is stored between its read and its write
C28_WritesBackWhereItRead ==
    \A c \in Clients :
        PathChosen(c) => requests[c].file_path = requests[c].read_path

\* the request has written the record it read back to where it read it
Written(c) ==
    /\ requests[c].pc = "done"
    /\ requests[c].status_code = 200
    /\ requests[c].file_path = requests[c].read_path

\* both requests have updated the same stored record, one its headline, the
\* other its phone and skills
BothUpdated ==
    /\ Written("a")
    /\ Written("b")
    /\ requests["a"].file_path = requests["b"].file_path
    /\ requests["a"].body = request.headline
    /\ requests["b"].body = request.phone_skills

\* C29, as claimed: once two updates of one record that set different fields
\* have both completed, the stored record has the changes of both, however
\* their reads and writes interleave
C29_NoLostUpdate ==
    BothUpdated =>
        LET stored == download(parsed_files, requests["a"].file_path)
        IN  /\ stored.identity.headline = word.X
            /\ stored.identity.phone = word.phone_555
            /\ stored.skills_analysis.explicit_skills = <<"go", "rust">>

-----------------------------------------------------------------------------
(* Properties of extract_cv_from_pdf while the csv directory is replaced,
   under SpecReload *)

\* the returned skills_analysis is what the one directory view gives
ConsistentWith(view) ==
    LET analysis == output.skills_analysis
    IN  /\ Range(analysis.related_roles) \subseteq get_all_job_titles(view)
        /\ Range(analysis.job_related_skills) \subseteq
               get_skills_for_job_positions(view, analysis.related_roles)
        /\ Range(analysis.explicit_skills) \subseteq get_all_skills(view)

\* C30, as claimed: the record a call returns is consistent with one of the
\* directories there were while it ran: its related roles are titles of that
\* directory, its job related skills are skills that directory gives those
\* roles, and its explicit skills are skills of that directory
C30_OneViewOfReferenceData ==
    pc = "done" => \E view \in views : ConsistentWith(view)

-----------------------------------------------------------------------------
(* Properties of extract_text_from_pdf, under SpecPdf *)

PdfDone == pdf_pc = "done"

HasFirstPage ==
    /\ pdf.open_strict = "ok"
    /\ ~pdf.encrypted
    /\ Len(pdf.pages) >= 1

\* page one throws a bounding-box error on standard decoding and the other
\* pages decode normally
FirstPageBboxError ==
    /\ HasFirstPage
    /\ pdf.pages[1].strict = "KeyError_bbox"
    /\ \A i \in 2..Len(pdf.pages) : pdf.pages[i].strict = "text"

LenientReadsFirstPage == pdf.pages[1].lenient = "text"

AlternateReadsFirstPage ==
    /\ PYMUPDF_AVAILABLE
    /\ pdf.fitz_open = "ok"
    /\ pdf.pages[1].fitz = "text"

HasFirstPageText(ts) == \E k \in 1..Len(ts) : ts[k].page = 1

\* C8: when page one throws a bounding-box error on standard decoding and the
\* other pages decode normally, the call returns text that includes page one
\* whenever lenient mode or the alternate decoder reads page one, and it fails,
\* with the no-text ValueError, only if neither of them does
C8_FirstPageRecovery ==
    (PdfDone /\ FirstPageBboxError) =>
        /\ (LenientReadsFirstPage \/ AlternateReadsFirstPage) =>
               /\ pdf_result.outcome = "returned"
               /\ pdf_result.texts # <<>>
               /\ HasFirstPageText(pdf_result.texts)
        /\ pdf_result.outcome = "raised" =>
               /\ ~LenientReadsFirstPage
               /\ ~AlternateReadsFirstPage
               /\ pdf_result.exception = "ValueError"
               /\ pdf_result.message = "no text"

\* two pages, page one unreadable in lenient mode too and supplied by the
\* alternate decoder
C8_Witness ==
    /\ PdfDone
    /\ FirstPageBboxError
    /\ Len(pdf.pages) >= 2
    /\ ~LenientReadsFirstPage
    /\ AlternateReadsFirstPage
    /\ pdf_result.outcome = "returned"
    /\ pdf_result.texts[1] = PageText(1, "fitz")

\* page one gives no text under any of the three decoding paths
FirstPageUnreadable ==
    /\ HasFirstPage
    /\ pdf.pages[1].strict # "text"
    /\ pdf.pages[1].lenient # "text"
    /\ ~AlternateReadsFirstPage

\* C9, as claimed: when page one yields no text under standard, lenient and
\* alternate decoding, the call ends in a failure and never returns with only
\* the text of the other pages
C9_FirstPageFailureEscalated ==
    (PdfDone /\ FirstPageUnreadable) => pdf_result.outcome = "raised"

\* the classes of failure the caller is told about
FailureClass(result) ==
    IF result.exception # "ValueError" THEN "unclassified"
    ELSE IF result.message = "no text" THEN "no-extractable-text"
    ELSE IF result.message = "formatting issues" THEN "corrupted-or-unsupported"
    ELSE "unclassified"

\* C10, as claimed: every failure is a ValueError of one of the classes; a
\* decoder error mentioning password or encrypted is reported as
\* password-protected, any other reader error as corrupted-or-unsupported
C10_EveryFailureClassified ==
    (PdfDone /\ pdf_result.outcome = "raised") =>
        /\ pdf_result.exception = "ValueError"
        /\ FailureClass(pdf_result) \in
               {"password-protected", "corrupted-or-unsupported",
                "no-extractable-text"}
        /\ pdf_error = "PdfReadError_password" =>
               FailureClass(pdf_result) = "password-protected"
        /\ pdf_error \in ErrorKinds \ {"PdfReadError_password"} =>
               FailureClass(pdf_result) = "corrupted-or-unsupported"

-----------------------------------------------------------------------------
(* Properties of the field agents and of the record built from them, under
   SpecAgents *)

Assembled == agent_pc = "done"

\* the academic projects of all the education entries of the record
AcademicProjects ==
    UNION {Range(cv_record.education[k].academic_projects) :
              k \in 1..Len(cv_record.education)}

\* C11, as claimed: in an assembled record no string of the academic_projects
\* of an education entry is in the top-level projects list, whatever the
\* agents returned
C11_EducationContainment ==
    Assembled => AcademicProjects \cap Range(cv_record.projects) = {}

\* the list values the completion parsed last gave to validators, each with
\* the validator's result on it and on its own result
Cleaned ==
    LET c == IF agent_in.agent = "none" THEN [projects |-> Json("null", <<>>)]
             ELSE agent_in.completion
        one(v, once, twice) == [v |-> v, once |-> once, twice |-> twice]
    IN  CASE agent_in.agent = "experience" ->
                 {one(c.experiences[k].responsibilities,
                      clean_responsibilities(c.experiences[k].responsibilities),
                      clean_responsibilities(clean_responsibilities(
                          c.experiences[k].responsibilities))) :
                     k \in 1..Len(c.experiences)}
          [] agent_in.agent = "education" ->
                 {one(c.education[k].certifications,
                      clean_lists(c.education[k].certifications),
                      clean_lists(clean_lists(c.education[k].certifications))) :
                     k \in 1..Len(c.education)}
                 \cup
                 {one(c.education[k].academic_projects,
                      clean_lists(c.education[k].academic_projects),
                      clean_lists(clean_lists(
                          c.education[k].academic_projects))) :
                     k \in 1..Len(c.education)}
          [] agent_in.agent = "projects" /\ "projects" \in DOMAIN c ->
                 {one(c.projects, clean_projects(c.projects),
                      clean_projects(clean_projects(c.projects)))}
          [] agent_in.agent = "certifications" ->
                 {one(c.certifications, clean_certifications(c.certifications),
                      clean_certifications(clean_certifications(
                          c.certifications)))}
          [] OTHER -> {}

\* the list fields of the models the agents returned
ValidatedLists ==
    {agent_out.experience.experiences[k].responsibilities :
        k \in 1..Len(agent_out.experience.experiences)}
    \cup {agent_out.education.education[k].certifications :
              k \in 1..Len(agent_out.education.education)}
    \cup {agent_out.education.education[k].academic_projects :
              k \in 1..Len(agent_out.education.education)}
    \cup {agent_out.projects.projects,
          agent_out.certifications.certifications}

\* C12: for each list field and every value v a completion gives it (null,
\* the empty list, lists with null, blank and non-string entries), cleaning
\* the cleaned value gives the cleaned value again, and the cleaned value is
\* what the agent returns in the field
C12_CleaningIdempotent ==
    \A x \in Cleaned :
        /\ x.twice = x.once
        /\ agent_pc = "return" => x.once \in ValidatedLists

\* a projects completion with a null, a padded and a blank entry was cleaned
\* to the one trimmed string
C12_Witness ==
    /\ agent_pc = "return"
    /\ agent_in.agent = "projects"
    /\ \E x \in Cleaned :
           /\ x.v = Json("list", <<Json("null", <<>>),
                                   Json("str", <<" ">> \o word.thesis \o <<"\t">>)>>)
           /\ x.once = Json("list", <<Json("str", word.thesis)>>)

-----------------------------------------------------------------------------
(* Properties of load_all_job_skill_dbs, under SpecRef *)

\* the file has both required columns once its header is normalized
HasRequiredColumns(src) ==
    \A required \in {word.job_title, word.skills} :
        \E c \in 1..Len(src.columns) :
            replace_space(lower(strip(src.columns[c]))) = required

\* the rows of all the files on disk, file after file
RowsOnDisk ==
    LET RECURSIVE rows_from(_)
        rows_from(f) ==
            IF f > Len(csv_files) THEN <<>>
            ELSE csv_files[f].rows \o rows_from(f + 1)
    IN  rows_from(1)

\* C13: load_all_job_skill_dbs raises the schema error when some file lacks
\* job_title or skills after the normalization of its header, the no-data
\* error when there is no file, and otherwise returns the rows of all the
\* files, in order, every job title and skills string trimmed and lower-cased
C13_LoadSchemaAndData ==
    ref_call.fn = "load_all_job_skill_dbs" =>
        IF \E f \in 1..Len(csv_files) : ~HasRequiredColumns(csv_files[f])
        THEN ref_result = Raises(<<"ValueError", "schema">>)
        ELSE IF csv_files = <<>>
        THEN ref_result = Raises(<<"ValueError", "nodata">>)
        ELSE /\ ref_result.outcome = "returned"
             /\ Len(ref_result.value) = Len(RowsOnDisk)
             /\ \A i \in 1..Len(RowsOnDisk) :
                    /\ ref_result.value[i].job_title =
                           strip(lower(RowsOnDisk[i].job_title))
                    /\ ref_result.value[i].skills =
                           strip(lower(RowsOnDisk[i].skills))

\* a well-formed file followed by one without a skills column: schema error
C13_Witness ==
    /\ ref_call.fn = "load_all_job_skill_dbs"
    /\ Len(csv_files) = 2
    /\ HasRequiredColumns(csv_files[1])
    /\ csv_files[2].columns = <<word.col_job_title, word.X>>
    /\ ref_result = Raises(<<"ValueError", "schema">>)

-----------------------------------------------------------------------------
(* Properties of an update whose record does not exist, under SpecUpdate *)

\* the update made has fields to write and no record to write them to: no
\* record at all, or none of the version asked for
TargetMissing ==
    /\ upd_call.fn # "none"
    /\ IF upd_call.timestamp = 0 THEN upd_call.files = <<>>
       ELSE \A i \in 1..Len(upd_call.files) :
                upd_call.files[i].name # upd_call.timestamp

\* the request carries at least one field
SomeFieldGiven == \E k \in DOMAIN upd_call.body : upd_call.body[k] # NoneVal

\* C14: an update whose target record does not exist (no parsed record, or
\* none with the timestamp asked for) ends in ValueError from update_parsed_cv
\* and in 404 from PATCH /cv/update, and the stored objects are those listed
\* before it
C14_MissingTargetNotFound ==
    TargetMissing =>
        /\ upd_call.fn = "update_parsed_cv" => upd_result.raised = "ValueError"
        /\ (upd_call.fn = "update_cv" /\ SomeFieldGiven) =>
               upd_result.status_code = 404
        /\ SubSeq(parsed_files, 1, Len(upd_call.files)) = upd_call.files

\* a record is stored, the update asks for another version
C14_Witness ==
    /\ TargetMissing
    /\ upd_call.fn = "update_parsed_cv"
    /\ SomeFieldGiven
    /\ upd_call.files # <<>>
    /\ upd_call.timestamp # 0
    /\ upd_result.raised = "ValueError"

\* C15, as claimed: whatever extractions and partial updates were made, the
\* explicit_skills of every stored record has at most 20 entries
C15_StoredSkillsCapped ==
    \A i \in 1..Len(parsed_files) :
        Len(parsed_files[i].content.skills_analysis.explicit_skills)
            <= MAX_SKILLS

-----------------------------------------------------------------------------
(* Further properties of extract_text_from_pdf, under SpecPdf *)

\* page i gives text to the standard reader, to the lenient one, to PyMuPDF
YieldsText(i, decoder) ==
    /\ pdf.pages[i][decoder] = "text"
    /\ ~pdf.encrypted
    /\ decoder = "strict" => pdf.open_strict = "ok"
    /\ decoder = "lenient" => pdf.open_lenient = "ok"
    /\ decoder = "fitz" => PYMUPDF_AVAILABLE /\ pdf.fitz_open = "ok"

NoPageYieldsText ==
    \A i \in 1..Len(pdf.pages), decoder \in {"strict", "lenient", "fitz"} :
        ~YieldsText(i, decoder)

\* C16, as claimed: a returned text holds the non-blank text of at least one
\* page, and when no page yields text under any decoder the call fails with
\* a ValueError of one of the classes
C16_TextOrClassifiedFailure ==
    PdfDone =>
        /\ pdf_result.outcome = "returned" =>
               /\ pdf_result.texts # <<>>
               /\ \A k \in 1..Len(pdf_result.texts) :
                      YieldsText(pdf_result.texts[k].page, pdf_result.texts[k].by)
        /\ NoPageYieldsText =>
               /\ pdf_result.outcome = "raised"
               /\ pdf_result.exception = "ValueError"
               /\ FailureClass(pdf_result) \in
                      {"password-protected", "corrupted-or-unsupported",
                       "no-extractable-text"}

\* the pypdf reader whose page loop gave the call its texts
LoopDecoder ==
    IF use_strict_false \/ pdf_error # "none" THEN "lenient" ELSE "strict"

\* page numbers go up along the returned texts, so no page is there twice
AscendingPages ==
    \A k \in 1..(Len(pdf_result.texts) - 1) :
        pdf_result.texts[k].page < pdf_result.texts[k + 1].page

\* C19, as claimed: a returned text is made of page texts in ascending page
\* order, each page at most once, and every page whose text the page loop
\* decoded is still there, also after the PyMuPDF fallback
C19_PagesInOrderNoneLost ==
    (PdfDone /\ pdf_result.outcome = "returned") =>
        /\ AscendingPages
        /\ \A i \in 1..Len(pdf.pages) :
               pdf.pages[i][LoopDecoder] = "text" =>
                   \E k \in 1..Len(pdf_result.texts) :
                       pdf_result.texts[k].page = i


\* page one gives text on standard decoding
FirstPageReads ==
    /\ HasFirstPage
    /\ pdf.pages[1].strict = "text"

\* C20: when page one yields text on standard decoding, the call neither
\* switches to strict=False nor asks PyMuPDF, it returns, the returned text
\* starts with page one's text, and it holds exactly the pages that gave text
\* on standard decoding: a later page that raised or was blank is left out.
C20_FirstPageAccepted ==
    (PdfDone /\ FirstPageReads) =>
        /\ ~use_strict_false
        /\ ~first_page_failed
        /\ pdf_error = "none"
        /\ pdf_result.outcome = "returned"
        /\ pdf_result.texts # <<>>
        /\ pdf_result.texts[1] = PageText(1, "strict")
        /\ \A k \in 1..Len(pdf_result.texts) : pdf_result.texts[k].by = "strict"
        /\ \A k \in 1..(Len(pdf_result.texts) - 1) :
               pdf_result.texts[k].page < pdf_result.texts[k + 1].page
        /\ \A i \in 1..Len(pdf.pages) :
               pdf.pages[i].strict = "text" <=>
                   \E k \in 1..Len(pdf_result.texts) :
                       pdf_result.texts[k].page = i

\* page one read, page two skipped although the other decoders read it
C20_Witness ==
    /\ PdfDone
    /\ FirstPageReads
    /\ Len(pdf.pages) = MaxPages
    /\ pdf.pages[MaxPages].strict # "text"
    /\ pdf.pages[MaxPages].lenient = "text"
    /\ pdf.pages[MaxPages].fitz = "text"
    /\ PYMUPDF_AVAILABLE
    /\ pdf_result = ReturnsText(<<PageText(1, "strict")>>)


\* the first-page test has been made
FirstPageTested == pdf_pc \in {"extract_pages", "fallback", "return", "done"}

\* the call has gone through the PyMuPDF branch of lines 96-124
AlternateAttempted ==
    /\ pdf_pc \in {"return", "done"}
    /\ pdf_error = "none"
    /\ first_page_failed
    /\ PYMUPDF_AVAILABLE

\* C21, as claimed: the decoders are tried in the order standard, lenient,
\* alternate: a first page that is blank or throws a font/bounding-box error
\* on standard decoding switches the call to strict=False, and PyMuPDF is
\* asked only after page one has failed under strict=False as well
C21_DecoderOrder ==
    /\ (FirstPageTested /\ HasFirstPage
        /\ (pdf.pages[1].strict = "blank"
            \/ mentions_bbox_or_font(pdf.pages[1].strict))) =>
           use_strict_false
    /\ AlternateAttempted =>
           /\ use_strict_false
           /\ pdf.pages[1].lenient # "text"

-----------------------------------------------------------------------------
(* Properties of POST /cv/extract, under SpecUpload *)

\* the upload is within the size limit, is named *.pdf and declares an
\* allowed MIME type
PassesAllChecks ==
    /\ upload_file.size <= max_size
    /\ lower(suffix(upload_file.filename)) = <<".", "p", "d", "f">>
    /\ upload_file.content_type \in allowed_types

\* C17, as claimed: extract_cv_from_pdf is reached only by an upload that
\* passes the three checks, and an upload that fails one of them is answered
\* 400 with nothing extracted and nothing stored
C17_UploadGate ==
    /\ "extract_cv_from_pdf" \in upload_done => PassesAllChecks
    /\ (upload_pc = "done" /\ ~PassesAllChecks) =>
           /\ upload_status = 400
           /\ upload_done = {}

\* C23, as claimed: a POST /cv/extract that ends in an error has stored
\* nothing, neither the raw PDF nor the parsed record
C23_FailedRequestStoresNothing ==
    (upload_pc = "done" /\ upload_status # 200) =>
        upload_done \cap {"store_raw_pdf", "store_parsed_cv"} = {}

-----------------------------------------------------------------------------
(* Properties of the recruiter-side job endpoints, under SpecJobs *)

\* the request just answered named a job that another recruiter owned
OnAnothersJob ==
    /\ job_call.fn \in {"get_job", "update_job", "delete_job"}
    /\ \E row \in job_call.before.job_position :
           /\ row.id = job_call.job_id
           /\ row.recruiter_profile_id # job_call.recruiter

\* C18: get_job, update_job and delete_job on a job owned by another
\* recruiter answer 404 and leave the job rows and the applications as they
\* were, and a job that create_job stored has the caller as its owner.
C18_OnlyOwnJobs ==
    /\ OnAnothersJob =>
           /\ job_response.status_code = 404
           /\ Tables = job_call.before
    /\ (job_call.fn = "create_job" /\ job_response.status_code = 201) =>
           /\ \A row \in job_response.data :
                  /\ row.recruiter_profile_id = job_call.recruiter
                  /\ row \in db.job_position
           /\ \A row \in db.job_position \ job_call.before.job_position :
                  row.recruiter_profile_id = job_call.recruiter

\* a recruiter asked to delete another recruiter's job that has an application
C18_Witness ==
    /\ OnAnothersJob
    /\ job_call.fn = "delete_job"
    /\ job_response.status_code = 404
    /\ \E a \in db.applications : a.job_position_id = job_call.job_id
    /\ \E row \in db.job_position : row.recruiter_profile_id = job_call.recruiter

-----------------------------------------------------------------------------
(* Properties of the stages of extract_cv_from_pdf, under SpecLive *)

Stages ==
    <<"DecodeText", "RunFieldAgents", "ResolveRoles", "SelectSkills",
      "Assemble", "done">>

StageNumber(p) == CHOOSE k \in 1..Len(Stages) : Stages[k] = p

\* a step goes to the next stage, or ends the run as failed
StageStep ==
    \/ pc' = pc
    \/ /\ pc \notin {"done", "failed"}
       /\ \/ pc' = "failed"
          \/ /\ pc' # "failed"
             /\ StageNumber(pc') = StageNumber(pc) + 1

\* the agents run on a decoded text only, and there is a record only at the
\* end of a run in which no stage failed
NoPartialRecord ==
    /\ pc \notin {"DecodeText", "failed"} => cv_text # NoneVal
    /\ pc # "done" => output = [skills_analysis |-> NoneVal]
    /\ pc = "done" =>
           DOMAIN output.skills_analysis =
               {"explicit_skills", "related_roles", "job_related_skills"}

RunEnded == pc \in {"done", "failed"}

\* C22: a run goes through DecodeText, RunFieldAgents, ResolveRoles,
\* SelectSkills and Assemble in that order, each once; the agents run only
\* on a decoded text, a failure of a stage ends the run without a record,
\* and every run ends with an assembled record or as failed.
C22_StagesInOrder ==
    /\ [][StageStep]_vars
    /\ []NoPartialRecord
    /\ <>[]RunEnded

\* the five agents returned, then the reference store could not be built
C22_Witness ==
    /\ pc = "failed"
    /\ cv_text # NoneVal
    /\ experience_roles_of(experiences) # <<>>
    /\ load_error(csv_files) # "ok"
    /\ output = [skills_analysis |-> NoneVal]

-----------------------------------------------------------------------------
(* Properties of ResolveRoles and SelectSkills, under Spec *)

\* what ResolveRoles hands to the role matcher
experience_roles == experience_roles_of(experiences)

\* the entries whose role is a non-empty string
WithRole ==
    {i \in 1..Len(experiences) :
        experiences[i] # NoneVal /\ experiences[i] # <<>>}

AgentsReturned == pc \in {"ResolveRoles", "SelectSkills", "Assemble", "done"}

\* C24: the role matcher is given the non-empty role fields in their order,
\* duplicates kept; with none of them the reference store is not loaded and
\* the call returns three empty lists even where the store cannot be built;
\* with some of them a store that cannot be built fails the call.
C24_ReferenceStoreDependence ==
    /\ Len(experience_roles) = Cardinality(WithRole)
    /\ \A i \in WithRole :
           experience_roles[Cardinality({j \in WithRole : j <= i})]
               = experiences[i]
    /\ experience_roles = <<>> => ref_call.fn = "none"
    /\ (pc = "failed" /\ ref_call.fn = "none") =>
           (cv_text = NoneVal \/ experiences = <<>>)
    /\ (pc = "done" /\ experience_roles = <<>>) =>
           /\ related_roles = <<>>
           /\ job_related_skills = <<>>
           /\ returned_explicit_skills = <<>>
    /\ (AgentsReturned /\ experience_roles # <<>>
        /\ load_error(csv_files) # "ok") => pc = "ResolveRoles"
    /\ (pc = "failed" /\ ref_call.fn # "none") =>
           /\ ref_result.outcome = "raised"
           /\ experience_roles # <<>>

\* no entry has a role, the store cannot be built, the call returned
C24_Witness ==
    /\ pc = "done"
    /\ Len(experiences) >= 2
    /\ experiences[1] = <<>>
    /\ experience_roles = <<>>
    /\ load_error(csv_files) # "ok"
    /\ ref_call.fn = "none"

\* the canonical titles as the set gives them to the role matcher
canonical_titles == iter(get_all_job_titles(csv_files), hash_order)

\* where a title stands among them
TitleIndex(t) == CHOOSE k \in 1..Len(canonical_titles) : canonical_titles[k] = t

====
